---- MODULE Spec2Model ----
(***************************************************************************)
(* Model of the CTI link collector (src/src/collector).                    *)
(*                                                                         *)
(* Spec     : one run of LinkCollector.collect_links together with the     *)
(*            progress loop of commands._collect_with_ui: the seed tasks,  *)
(*            the site semaphore, the shared link set, the attribution     *)
(*            map, the date map and the per-seed date-lookup tasks.  Every *)
(*            action is one stretch of code between two suspension points  *)
(*            of the asyncio event loop.                                   *)
(* SpecPag  : LinkCollector._collect_paginated_site_parallel for one seed, *)
(*            batch by batch, with the source's page cap.                  *)
(***************************************************************************)
EXTENDS Integers, Sequences, FiniteSets, TLC

\* ------------------------------------------------------------------------
\* Bounds of the model
\* ------------------------------------------------------------------------
NumSeeds == 3                 \* seeds in the seed file
NumLinks == 2                 \* links the modelled sites can serve
MaxConcurrentSites == 2       \* collector.max_concurrent_sites of the run
MaxConcurrentDateFetches == 1 \* collector.max_concurrent_date_fetches of the run

Seeds == 1..NumSeeds
Links == 1..NumLinks

\* ------------------------------------------------------------------------
\* Host names, as sequences of characters (Python str)
\* ------------------------------------------------------------------------
H_asec == <<"a","s","e","c",".","a","h","n","l","a","b",".","c","o","m">>
H_www_fortinet == <<"w","w","w",".","f","o","r","t","i","n","e","t",".","c","o","m">>
H_fortinet == <<"f","o","r","t","i","n","e","t",".","c","o","m">>
H_research_checkpoint == <<"r","e","s","e","a","r","c","h",".","c","h","e","c","k","p","o","i","n","t",".","c","o","m">>
H_checkpoint == <<"c","h","e","c","k","p","o","i","n","t",".","c","o","m">>
H_thedfirreport == <<"t","h","e","d","f","i","r","r","e","p","o","r","t",".","c","o","m">>
H_www_genians == <<"w","w","w",".","g","e","n","i","a","n","s",".","c","o",".","k","r">>
H_genians == <<"g","e","n","i","a","n","s",".","c","o",".","k","r">>

\* Python's `a in b` on strings: a is a contiguous substring of b.
StrIn(a, b) ==
    \E i \in 1..(Len(b) - Len(a) + 1) : SubSeq(b, i, i + Len(a) - 1) = a

\* The seed file of the modelled run: seed i is the i-th line (cyclically
\* over three listing pages, two of them hosts of one alias group).
SeedHosts == << H_www_fortinet, H_fortinet, H_thedfirreport >>
SeedUrl(s) == ((s - 1) % Len(SeedHosts)) + 1
SeedUrls == { SeedUrl(s) : s \in Seeds }
\* urlparse(base_url).netloc.lower()
SeedHost(s) == SeedHosts[SeedUrl(s)]

\* The article links the modelled sites serve, and urlparse(link).netloc.
LinkHosts == << H_www_fortinet, H_fortinet, H_thedfirreport >>
LinkHost(l) == LinkHosts[((l - 1) % Len(LinkHosts)) + 1]

\* ------------------------------------------------------------------------
\* Domain matcher and the link filter's host check
\* ------------------------------------------------------------------------
\* domain_mapping, in dict (insertion) order
domain_mapping == <<
    [key |-> H_asec,                allowed |-> {H_asec}],
    [key |-> H_www_fortinet,        allowed |-> {H_www_fortinet, H_fortinet}],
    [key |-> H_fortinet,            allowed |-> {H_www_fortinet, H_fortinet}],
    [key |-> H_research_checkpoint, allowed |-> {H_research_checkpoint}],
    [key |-> H_checkpoint,          allowed |-> {H_research_checkpoint, H_checkpoint}],
    [key |-> H_thedfirreport,       allowed |-> {H_thedfirreport}],
    [key |-> H_www_genians,         allowed |-> {H_www_genians, H_genians}],
    [key |-> H_genians,             allowed |-> {H_www_genians, H_genians}] >>

\* the loose three-way check
LooseHostMatch(expected_domain, link_domain) ==
    \/ expected_domain = link_domain
    \/ StrIn(expected_domain, link_domain)
    \/ StrIn(link_domain, expected_domain)

\* _is_link_from_domain on the hosts: the first table key contained in the
\* expected domain decides; without one the loose check does.
IsLinkFromDomain(link_domain, expected_domain) ==
    LET hits == { i \in 1..Len(domain_mapping) :
                    StrIn(domain_mapping[i].key, expected_domain) }
    IN  IF hits # {}
        THEN LET first == CHOOSE i \in hits : \A j \in hits : i <= j
             IN  link_domain \in domain_mapping[first].allowed
        ELSE LooseHostMatch(expected_domain, link_domain)

\* the final host check of _is_valid_universal_link
FilterHostCheck_AnyHost(link_domain, current_domain) == TRUE
FilterHostCheck(link_domain, current_domain) ==
    LooseHostMatch(current_domain, link_domain)

\* The links _extract_links can return from a listing page of seed s: the
\* served links that pass the filter against the page's host.
SiteLinks(s) == { l \in Links : FilterHostCheck(LinkHost(l), SeedHost(s)) }

\* the two host checks, tabulated per seed
SiteLinksOf == [s \in Seeds |-> SiteLinks(s)]
FromDomainOf ==
    [s \in Seeds |-> { l \in Links : IsLinkFromDomain(LinkHost(l), SeedHost(s)) }]

\* ------------------------------------------------------------------------
\* Dates
\* ------------------------------------------------------------------------
NoDate == 0
UrlDate == 2024   \* the date a dated URL path encodes (as a year)
PageDate == 2023  \* the date the page inspection finds (as a year)

\* _date_from_url: the thedfirreport links carry /YYYY/MM/DD/ in the path,
\* the fortinet blog links carry no date.
DateFromUrl(l) == IF LinkHost(l) = H_thedfirreport THEN UrlDate ELSE NoDate

\* ------------------------------------------------------------------------
\* The output file and _save_urls_by_section
\* ------------------------------------------------------------------------
\* `datetime(1970, 1, 1)`, the sort key of a link without date (as a year)
SortDefault == 1970

\* the lists a seed's attribution can be: its links in any order
RECURSIVE ListsOf(_)
ListsOf(S) ==
    IF S = {} THEN { << >> }
    ELSE UNION { { << x >> \o rest : rest \in ListsOf(S \ {x}) } : x \in S }

\* `self.link_dates.get(u, datetime(1970, 1, 1))`
SortKey(dates, u) == IF dates[u] = NoDate THEN SortDefault ELSE dates[u]

\* sorted(links, key=sort_key, reverse=True): descending by key, links with
\* equal keys keep the order they had in the list
RECURSIVE InsertDesc(_, _, _)
InsertDesc(sorted, u, dates) ==
    IF sorted = << >> THEN << u >>
    ELSE IF SortKey(dates, Head(sorted)) >= SortKey(dates, u)
         THEN << Head(sorted) >> \o InsertDesc(Tail(sorted), u, dates)
         ELSE << u >> \o sorted
RECURSIVE SortedDesc(_, _)
SortedDesc(links, dates) ==
    IF links = << >> THEN << >>
    ELSE InsertDesc(SortedDesc(SubSeq(links, 1, Len(links) - 1), dates),
                    links[Len(links)], dates)

\* A file is absent or a sequence of lines; a line is its fixed text and
\* the value formatted into it.
Line(t, v) == [t |-> t, v |-> v]
TitleLine == Line("# CTI Links Collection", 0)
UpdatedLine(now) == Line("# Last Updated:", now)
TotalLine(n) == Line("# Total Links:", n)
SectionLine(url) == Line("##", url)
CollectedLine(n) == Line("# Collected:", n)
DateLine(now) == Line("# Date:", now)
LinkLine(l) == Line("link", l)
BlankLine == Line("", 0)
PreviousLine == Line("# === Previous Collections ===", 0)

NoFile == [exists |-> FALSE, content |-> << >>]
FileOf(content) == [exists |-> TRUE, content |-> content]

\* `if Path(self.output_file).exists(): ... existing_content = f.read()`
ExistingContent(file) == IF file.exists THEN file.content ELSE << >>
\* `existing_content.strip()` is not empty
Stripped(content) == \E i \in 1..Len(content) : content[i] # BlankLine
\* `existing_content.startswith("# CTI Links Collection")`
StartsWithTitle(content) == Len(content) > 0 /\ content[1] = TitleLine

\* the three header lines and the empty line after them
HeaderLines(coll, now) ==
    << TitleLine, UpdatedLine(now), TotalLine(Cardinality(coll)), BlankLine >>

\* `if links:` a section is written for a seed URL with a non-empty list
SectionLines_Always(url, links, dates, now) ==
    << SectionLine(url), CollectedLine(Len(links)), DateLine(now), BlankLine >>
        \o [i \in 1..Len(links) |-> LinkLine(SortedDesc(links, dates)[i])]
        \o << BlankLine >>
SectionLines(url, links, dates, now) ==
    IF links # << >> THEN SectionLines_Always(url, links, dates, now)
    ELSE << >>

\* `for base_url in reversed(base_urls)`: last key of the dict first
RECURSIVE SectionsReversed(_, _, _)
SectionsReversed(d, dates, now) ==
    IF d = << >> THEN << >>
    ELSE SectionLines(d[Len(d)].url, d[Len(d)].links, dates, now)
            \o SectionsReversed(SubSeq(d, 1, Len(d) - 1), dates, now)

\* what was in the file is appended under the marker line unless it is
\* blank or starts with the title line
PreviousBlock_Always(existing) == << PreviousLine, BlankLine >> \o existing
PreviousBlock(existing) ==
    IF Stripped(existing) /\ ~StartsWithTitle(existing)
    THEN PreviousBlock_Always(existing)
    ELSE << >>

\* _save_urls_by_section: the file after the call (d holds lists)
SaveUrlsBySection(file, d, dates, coll, now) ==
    FileOf(HeaderLines(coll, now)
             \o SectionsReversed(d, dates, now)
             \o PreviousBlock(ExistingContent(file)))

\* ------------------------------------------------------------------------
\* State of a run
\* ------------------------------------------------------------------------
VARIABLES
    run,              \* position of collect_links
    permits,          \* value of the site semaphore
    pc,               \* position of each seed task
    initial,          \* initial_collected_links of each seed task
    new_links,        \* new_links_for_this_site of each seed task
    date_task,        \* position of each work(url) task of _enrich_dates
    collected_links,  \* self.collected_links
    link_dates,       \* self.link_dates (NoDate: no entry)
    links_by_source,  \* self.links_by_source, in dict insertion order
    attempts,         \* history: date resolutions attempted per link
    event_q,          \* the progress event queue of _collect_with_ui
    ui_pc,            \* position of ui_loop
    completed         \* ui_loop's counter

runVars == << run, permits, pc, initial, new_links, date_task,
              collected_links, link_dates, links_by_source, attempts,
              event_q, ui_pc, completed >>

\* State of one call of _collect_paginated_site_parallel (SpecPag)
VARIABLES
    pag_pc,           \* position of the paginated crawler
    batch_size,       \* batch_size = self.max_concurrent_pages
    page_num,         \* page_num
    initial_count,    \* initial_count
    pag_ret,          \* the value returned
    fetched,          \* history: page numbers fetched, in order
    batch_log,        \* history: per batch merged, whether it added a link
    first_page,       \* history: whether page 1 returned links
    links_1_5,        \* history: no page of 1..5 returned zero links
    nonew_6_10,       \* history: no page of 6..10 contributed a new link
    nonew_7_11        \* history: no page of 7..11 contributed a new link

pagVars == << pag_pc, batch_size, page_num, initial_count, pag_ret, fetched,
              batch_log, first_page, links_1_5, nonew_6_10, nonew_7_11 >>

\* State of one call of _collect_load_more_site (SpecLm)
VARIABLES
    lm_pc,               \* position of the load-more crawler
    lm_initial_count,    \* initial_count
    click_count,         \* click_count
    consecutive_no_new,  \* consecutive_no_new
    pattern_i,           \* index of the button pattern being tried
    button_clicked,      \* button_clicked
    lm_ret,              \* the value returned
    lm_exit,             \* history: why the click loop was left
    uncounted,           \* history: clicks done that click_count missed
    streak,              \* history: counted clicks in a row without a new link
    extractions          \* history: calls of _extract_links

lmVars == << lm_pc, lm_initial_count, click_count, consecutive_no_new,
             pattern_i, button_clicked, lm_ret, lm_exit, uncounted, streak,
             extractions >>

\* State of one call of _detect_site_type (SpecDet)
VARIABLES
    det_pc,              \* position of _detect_site_type
    det_pattern,         \* index of the load-more pattern being tried
    det_elements,        \* elements located for the pattern
    det_i,               \* index of the element being examined
    det_ret              \* the value returned ("none": nothing yet)

detVars == << det_pc, det_pattern, det_elements, det_i, det_ret >>

\* State of one navigation at one of the call sites (SpecNav)
VARIABLES
    nav_site,            \* the call site
    nav_pc,              \* position of the navigation
    nav_try,             \* the try of _goto_with_retry
    nav_log,             \* history: outcome of each page.goto, in order
    nav_sel,             \* index of the listing selector waited for
    nav_contrib          \* what the page contributed: links, a date, none

navVars == << nav_site, nav_pc, nav_try, nav_log, nav_sel, nav_contrib >>

\* State of a seed that is processed twice (SpecTw)
VARIABLES
    tw_cap,              \* max_concurrent_sites of the run
    tw_pc,               \* position of each of the two seed tasks
    tw_content,          \* the links the site serves, by listing page
    tw_added,            \* history: links each crawl added to the global set
    tw_net,              \* len(new_links_for_this_site) of each task
    tw_overlap           \* history: the second task started during the first

twVars == << tw_cap, tw_pc, tw_content, tw_added, tw_net, tw_overlap >>

\* State of the writing of one manifest section (SpecSort)
VARIABLES
    sort_pc,             \* position of the writer
    sort_input,          \* self.links_by_source[base_url], a list
    section              \* the links of the section, as written

sortVars == << sort_pc, sort_input, section >>

\* The output file, over the runs made on it
VARIABLES
    output_file,         \* the file named by self.output_file
    run_no,              \* number of the run, also its current_time
    legacy,              \* history: the content before the first run
    listed               \* history: the links written by earlier runs

fileVars == << output_file, run_no, legacy, listed >>

\* State of the command layer (SpecCmd)
VARIABLES
    cmd_pc,              \* position of the command
    entry,               \* the function the collection is started by
    seed_file,           \* the file named by base_url_file
    mode,                \* the concurrency preset
    cpu,                 \* cpu_count()
    env_sites,           \* os.getenv("CTS_MAX_CONCURRENT_SITES")
    env_pages,           \* os.getenv("CTS_MAX_CONCURRENT_PAGES")
    max_sites,           \* collector.max_concurrent_sites
    max_pages_c,         \* collector.max_concurrent_pages
    cmd_exc,             \* the exception that left the command
    browser              \* chromium was launched

cmdVars == << cmd_pc, entry, seed_file, mode, cpu, env_sites, env_pages,
              max_sites, max_pages_c, cmd_exc, browser >>

\* State of the host checks on one page (SpecHost)
VARIABLES
    host_pc,             \* position: page, extracted, attributed
    page_host,           \* urlparse(page.url).netloc.lower(), the seed's host
    served,              \* hosts of the links found on the page
    accepted,            \* hosts of the links _extract_links returns
    attributed           \* hosts of the links attributed to the seed

hostVars == << host_pc, page_host, served, accepted, attributed >>

\* State of the date resolution of one link (SpecDate)
VARIABLES
    dr_pc,               \* position of work(url)
    dr_url,              \* the date part of the link's URL path
    dr_genians,          \* "genians.co.kr" is in the link's host
    dr_page,             \* what each source of the article page holds
    dr_stage,            \* the stage _extract_date_from_page is at
    dr_header,           \* header_dt
    dr_ret,              \* the value _extract_date_from_page returns
    dr_recorded,         \* self.link_dates[url] (NoDate: no entry)
    dr_opened            \* article pages opened for the link

dateVars == << dr_pc, dr_url, dr_genians, dr_page, dr_stage, dr_header,
               dr_ret, dr_recorded, dr_opened >>

\* State of two crawlers merging into the global set (SpecMerge)
VARIABLES
    mg_pc,               \* position of each crawler task
    mg_kind,             \* each crawler: load-more or paginated
    mg_seen,             \* the global set when the task suspended
    mg_round,            \* extractions / batches each task has merged
    mg_counted,          \* history: merge steps that counted a link as new
    mg_torn              \* history: a difference was taken against a set
                         \* other than the one updated

mgVars == << mg_pc, mg_kind, mg_seen, mg_round, mg_counted, mg_torn >>


\* State of the extractor's workers (SpecExt)
VARIABLES
    ex_pc,               \* position of each _worker task
    ex_url,              \* the URL of each worker, in URL-file order
    ex_retries,          \* --retries
    ex_permits,          \* value of the extractor's semaphore
    ex_attempt,          \* attempt of each worker
    ex_renders,          \* history: render_url_to_pdf_async calls per worker
    ex_good,             \* history: renders of each worker that succeeded
    ex_file,             \* temporary PDF files: the worker that wrote it, 0
    ex_events,           \* the events each worker has put on event_q
    ex_lost              \* history: a worker's rendered file was removed or
                         \* renamed by another worker before its own rename

exVars == << ex_pc, ex_url, ex_retries, ex_permits, ex_attempt, ex_renders,
             ex_good, ex_file, ex_events, ex_lost >>


\* the state of the crawlers and helpers that a run does not enter
auxVars == << lmVars, detVars, navVars, twVars, sortVars >>

\* the variables of a run other than the global link set
runRest == << run, permits, pc, initial, new_links, date_task, link_dates,
              links_by_source, attempts, event_q, ui_pc, completed >>

\* ------------------------------------------------------------------------
\* asyncio.Semaphore
\* ------------------------------------------------------------------------
SemCanAcquire_NoLimit(value) == TRUE
SemCanAcquire(value) == value > 0

\* permits a seed task holds: it is inside `async with semaphore`
Inside(s) == pc[s] \in {"detecting", "crawling", "merged", "enriching"}
Finished(s) == pc[s] \in {"done", "raised", "cancelled"}

\* dict assignment d[url] = links: an existing key keeps its position
DictSet(d, url, links) ==
    IF \E i \in 1..Len(d) : d[i].url = url
    THEN [i \in 1..Len(d) |-> IF d[i].url = url
                              THEN [url |-> url, links |-> links] ELSE d[i]]
    ELSE Append(d, [url |-> url, links |-> links])

DictKeys(d) == { d[i].url : i \in 1..Len(d) }
DictGet(d, url) == d[CHOOSE i \in 1..Len(d) : d[i].url = url].links

\* The completion hook: _process_single_site never invokes on_site_complete
\* (nor on_site_start), so finishing a seed leaves the event queue as it is.
PublishCompletion(q, s) == q

\* ------------------------------------------------------------------------
\* Init
\* ------------------------------------------------------------------------
InitRun ==
    /\ run = "start"
    /\ permits = MaxConcurrentSites
    /\ pc = [s \in Seeds |-> "queued"]
    /\ initial = [s \in Seeds |-> {}]
    /\ new_links = [s \in Seeds |-> {}]
    /\ date_task = [s \in Seeds |-> [l \in Links |-> "none"]]
    /\ collected_links = {}
    /\ link_dates = [l \in Links |-> NoDate]
    /\ links_by_source = << >>
    /\ attempts = [l \in Links |-> 0]
    /\ event_q = << >>
    /\ ui_pc = "running"
    /\ completed = 0

\* ------------------------------------------------------------------------
\* collect_links
\* ------------------------------------------------------------------------
\* The seed list is read and non-empty, the browser context is opened, the
\* semaphore is created and the seed tasks are handed to gather.  The first
\* await of collect_links (starting playwright) lets ui_loop, the second
\* coroutine of the outer gather, run to its event_q.get() first.
StartGather ==
    /\ run = "start"
    /\ ui_pc # "running"
    /\ run' = "gathering"
    /\ UNCHANGED << permits, pc, initial, new_links, date_task,
                    collected_links, link_dates, links_by_source, attempts,
                    event_q, ui_pc, completed,
                    pagVars, auxVars, fileVars, cmdVars, hostVars, dateVars, mgVars, exVars >>

\* initial_collected_links = set(self.collected_links)
Snapshot_Empty(coll) == {}
Snapshot(coll) == coll

TasksLive == run \in {"gathering", "aborting"}

\* _process_site_with_semaphore enters `async with semaphore` and
\* _process_single_site runs to its first suspension point: it snapshots
\* the global set and calls _detect_site_type (awaits new_page).  gather
\* creates the tasks in seed order and every one of them reaches the
\* semaphore before any awaited browser call returns, so the waiters
\* queue in seed order and asyncio.Semaphore wakes them first-in first-out.
Acquire(s) ==
    /\ TasksLive
    /\ pc[s] = "queued"
    /\ \A t \in Seeds : t < s => pc[t] # "queued"
    /\ SemCanAcquire(permits)
    /\ permits' = permits - 1
    /\ initial' = [initial EXCEPT ![s] = Snapshot(collected_links)]
    /\ pc' = [pc EXCEPT ![s] = "detecting"]
    /\ UNCHANGED << run, new_links, date_task, collected_links,
                    link_dates, links_by_source, attempts, event_q, ui_pc,
                    completed,
                    pagVars, auxVars, fileVars, cmdVars, hostVars, dateVars, mgVars, exVars >>

\* _detect_site_type returns one of its two results (every failure after
\* new_page is caught and yields "pagination"); the crawler chosen by the
\* result starts and awaits its first page.
DetectSiteType(s) ==
    /\ TasksLive
    /\ pc[s] = "detecting"
    /\ pc' = [pc EXCEPT ![s] = "crawling"]
    /\ UNCHANGED << run, permits, initial, new_links, date_task,
                    collected_links, link_dates, links_by_source, attempts,
                    event_q, ui_pc, completed,
                    pagVars, auxVars, fileVars, cmdVars, hostVars, dateVars, mgVars, exVars >>

\* An exception that leaves _process_single_site: browser_context.new_page()
\* (outside every try block of _detect_site_type, _collect_load_more_site,
\* _extract_links_from_single_page) or page.close() in a finally block
\* raises.  `async with semaphore` releases the permit on the way out.
\* gather has no return_exceptions: the first exception of a seed task is
\* raised in collect_links, which only handles KeyboardInterrupt; its
\* finally block closes context and browser while the other tasks go on.
SiteRaise(s) ==
    /\ TasksLive
    /\ pc[s] \in {"detecting", "crawling", "merged"}
    /\ pc' = [pc EXCEPT ![s] = "raised"]
    /\ permits' = permits + 1
    /\ initial' = [initial EXCEPT ![s] = {}]
    /\ run' = "aborting"
    /\ UNCHANGED << new_links, date_task,
                    collected_links, link_dates, links_by_source, attempts,
                    event_q, ui_pc, completed,
                    pagVars, auxVars, fileVars, cmdVars, hostVars, dateVars, mgVars, exVars >>

\* self.collected_links.update(new)
SetUpdate_Replace(coll, new) == new
SetUpdate(coll, new) == coll \cup new

\* One merge of a crawler into the global set: new = links - collected_links,
\* collected_links.update(new), with no suspension point in between
\* (initial page / click of the load-more crawler, page 1 / batch page of
\* the paginated crawler).  Merges that add nothing leave the state as is.
\* A crawler that has merged links is at "merged".
CrawlMerge(s) ==
    /\ TasksLive
    /\ pc[s] \in {"crawling", "merged"}
    /\ \E links \in (SUBSET SiteLinksOf[s]) \ {{}} :
          LET new == links \ collected_links
          IN  /\ new # {}
              /\ collected_links' = SetUpdate(collected_links, new)
    /\ pc' = [pc EXCEPT ![s] = "merged"]
    /\ UNCHANGED << run, permits, initial, new_links,
                    date_task, link_dates, links_by_source, attempts,
                    event_q, ui_pc, completed,
                    pagVars, auxVars, fileVars, cmdVars, hostVars, dateVars, mgVars, exVars >>

\* new_links_for_this_site, computed when the crawler has returned
NewLinksForThisSite_NotCollected(s) ==
    { l \in SiteLinksOf[s] : l \notin initial[s] }
NewLinksAgainst(snapshot, s) ==
    { l \in collected_links : l \notin snapshot /\ l \in FromDomainOf[s] }
NewLinksForThisSite(s) == NewLinksAgainst(initial[s], s)

\* The end of _process_single_site once nothing is left to await:
\* links_by_source[base_url] = new_links_for_this_site, the completion
\* hook, and the release of the site permit.  The locals of the call
\* (snapshot, new-link list, finished work tasks) are gone with it.
CompleteSite(s, news) ==
    /\ links_by_source' = DictSet(links_by_source, SeedUrl(s), news)
    /\ initial' = [initial EXCEPT ![s] = {}]
    /\ new_links' = [new_links EXCEPT ![s] = {}]
    /\ date_task' = [date_task EXCEPT ![s] = [l \in Links |-> "none"]]
    /\ event_q' = PublishCompletion(event_q, s)
    /\ pc' = [pc EXCEPT ![s] = "done"]
    /\ permits' = permits + 1

\* The crawler returns; the new links of the seed are computed and
\* _enrich_dates hands one work(url) task per new link to gather.  With no
\* new link gather() has nothing to await and the seed task runs to its end.
CrawlReturn(s) ==
    /\ TasksLive
    /\ pc[s] \in {"crawling", "merged"}
    /\ LET news == NewLinksForThisSite(s)
       IN  IF news = {}
           THEN CompleteSite(s, news)
           ELSE /\ new_links' = [new_links EXCEPT ![s] = news]
                /\ date_task' = [date_task EXCEPT ![s] =
                                   [l \in Links |-> IF l \in news THEN "pending"
                                                    ELSE "none"]]
                /\ initial' = [initial EXCEPT ![s] = {}]
                /\ pc' = [pc EXCEPT ![s] = "enriching"]
                /\ UNCHANGED << permits, links_by_source, event_q >>
    /\ UNCHANGED << run, collected_links, link_dates,
                    attempts, ui_pc, completed,
                    pagVars, auxVars, fileVars, cmdVars, hostVars, dateVars, mgVars, exVars >>

\* ------------------------------------------------------------------------
\* _enrich_dates: one work(url) task per new link, under a semaphore that
\* every call of _enrich_dates creates for itself
\* ------------------------------------------------------------------------
InFlight(s) == { l \in Links : date_task[s][l] = "inflight" }

\* permits left in the semaphore of seed s's _enrich_dates call
DateSemValue(s) == MaxConcurrentDateFetches - Cardinality(InFlight(s))

\* `if url in self.link_dates: return`
Memoized(l) == link_dates[l] # NoDate

\* A work task that returns is awaited by the gather of its _enrich_dates
\* call; once that gather has failed nothing refers to the task any more.
WorkEnd(s) == IF pc[s] = "enriching" THEN "done" ELSE "none"

\* work(url) up to its first suspension point: the permit, the memo test,
\* the URL inference and, without a date from the URL, the start of the
\* page inspection (awaits new_page).
StartDateWork(s, l) ==
    /\ TasksLive
    /\ date_task[s][l] = "pending"
    /\ SemCanAcquire(DateSemValue(s))
    /\ IF Memoized(l)
       THEN /\ date_task' = [date_task EXCEPT ![s][l] = WorkEnd(s)]
            /\ UNCHANGED << attempts, link_dates >>
       ELSE /\ attempts' = [attempts EXCEPT ![l] = @ + 1]
            /\ IF DateFromUrl(l) # NoDate
               THEN /\ link_dates' = [link_dates EXCEPT ![l] = DateFromUrl(l)]
                    /\ date_task' = [date_task EXCEPT ![s][l] = WorkEnd(s)]
               ELSE /\ date_task' = [date_task EXCEPT ![s][l] = "inflight"]
                    /\ UNCHANGED link_dates
    /\ UNCHANGED << run, permits, pc, initial, new_links,
                    collected_links, links_by_source, event_q, ui_pc,
                    completed,
                    pagVars, auxVars, fileVars, cmdVars, hostVars, dateVars, mgVars, exVars >>

\* _extract_date_from_page returns a date or None (every failure after
\* new_page is caught and yields None); `if dt: self.link_dates[url] = dt`.
FinishDateLookup(s, l) ==
    /\ TasksLive
    /\ date_task[s][l] = "inflight"
    /\ \E dt \in {NoDate, PageDate} :
          link_dates' = IF dt # NoDate THEN [link_dates EXCEPT ![l] = dt]
                        ELSE link_dates
    /\ date_task' = [date_task EXCEPT ![s][l] = WorkEnd(s)]
    /\ UNCHANGED << run, permits, pc, initial, new_links,
                    collected_links, links_by_source, attempts, event_q,
                    ui_pc, completed,
                    pagVars, auxVars, fileVars, cmdVars, hostVars, dateVars, mgVars, exVars >>

\* new_page() or page.close() of _extract_date_from_page raises: the work
\* task ends with the exception, gather hands it to _enrich_dates and it
\* leaves _process_single_site (the other work tasks are not cancelled).
DateLookupRaise(s, l) ==
    /\ TasksLive
    /\ date_task[s][l] = "inflight"
    /\ IF pc[s] = "enriching"
       THEN /\ pc' = [pc EXCEPT ![s] = "raised"]
            /\ permits' = permits + 1
            /\ new_links' = [new_links EXCEPT ![s] = {}]
            /\ date_task' = [date_task EXCEPT ![s] =
                   [k \in Links |-> IF k = l \/ date_task[s][k] = "done"
                                    THEN "none" ELSE date_task[s][k]]]
            /\ run' = "aborting"
       ELSE /\ date_task' = [date_task EXCEPT ![s][l] = "none"]
            /\ UNCHANGED << run, pc, permits, new_links >>
    /\ UNCHANGED << initial, collected_links,
                    link_dates, links_by_source, attempts, event_q, ui_pc,
                    completed,
                    pagVars, auxVars, fileVars, cmdVars, hostVars, dateVars, mgVars, exVars >>

\* gather of _enrich_dates has every result: the seed task runs to its end
FinishSite(s) ==
    /\ TasksLive
    /\ pc[s] = "enriching"
    /\ \A l \in new_links[s] : date_task[s][l] = "done"
    /\ CompleteSite(s, new_links[s])
    /\ UNCHANGED << run, collected_links, link_dates, attempts, ui_pc,
                    completed,
                    pagVars, auxVars, fileVars, cmdVars, hostVars, dateVars, mgVars, exVars >>

\* ------------------------------------------------------------------------
\* collect_links after gather
\* ------------------------------------------------------------------------
\* every seed task returned: the finally block closes context and browser
GatherDone ==
    /\ run = "gathering"
    /\ \A s \in Seeds : pc[s] = "done"
    /\ run' = "closing"
    /\ UNCHANGED << permits, pc, initial, new_links, date_task,
                    collected_links, link_dates, links_by_source, attempts,
                    event_q, ui_pc, completed,
                    pagVars, auxVars, fileVars, cmdVars, hostVars, dateVars, mgVars, exVars >>

\* self.links_by_source with each value as a list: a value was filled by
\* iterating the set self.collected_links, in whatever order the set has
RECURSIVE ListDicts(_)
ListDicts(d) ==
    IF d = << >> THEN { << >> }
    ELSE { Append(rest, [url |-> d[Len(d)].url, links |-> ls]) :
              rest \in ListDicts(SubSeq(d, 1, Len(d) - 1)),
              ls \in ListsOf(d[Len(d)].links) }

\* _save_urls_by_section and _summarize_links; collect_links returns
SaveUrls ==
    /\ run = "closing"
    /\ run' = "saved"
    /\ \E d \in ListDicts(links_by_source) :
          output_file' = SaveUrlsBySection(output_file, d, link_dates,
                                           collected_links, run_no)
    /\ UNCHANGED << permits, pc, initial, new_links, date_task,
                    collected_links, link_dates, links_by_source, attempts,
                    event_q, ui_pc, completed, run_no, legacy, listed,
                    pagVars, auxVars, cmdVars, hostVars, dateVars, mgVars, exVars >>

\* The exception leaves collect_links (nothing is saved) and the event loop
\* of asyncio.run shuts down, cancelling every task that is still pending.
Shutdown ==
    /\ run = "aborting"
    /\ run' = "aborted"
    /\ pc' = [s \in Seeds |-> IF Finished(s) THEN pc[s] ELSE "cancelled"]
    /\ date_task' = [s \in Seeds |-> [l \in Links |->
                        IF date_task[s][l] \in {"pending", "inflight"}
                        THEN "cancelled" ELSE date_task[s][l]]]
    /\ initial' = [s \in Seeds |-> {}]
    /\ new_links' = [s \in Seeds |-> {}]
    /\ permits' = MaxConcurrentSites
    /\ ui_pc' = IF ui_pc = "done" THEN ui_pc ELSE "cancelled"
    /\ UNCHANGED << collected_links, link_dates, links_by_source, attempts,
                    event_q, completed,
                    pagVars, auxVars, fileVars, cmdVars, hostVars, dateVars, mgVars, exVars >>

\* ------------------------------------------------------------------------
\* ui_loop of _collect_with_ui
\* ------------------------------------------------------------------------
\* `while completed < total_sites: ... = await event_q.get(); completed += 1`
UiLoop ==
    /\ run \notin {"aborted"}
    /\ IF completed >= NumSeeds
       THEN /\ ui_pc = "running"
            /\ ui_pc' = "done"
            /\ UNCHANGED << event_q, completed >>
       ELSE IF event_q # << >>
            THEN /\ ui_pc \in {"running", "waiting"}
                 /\ event_q' = Tail(event_q)
                 /\ completed' = completed + 1
                 /\ ui_pc' = "running"
            ELSE /\ ui_pc = "running"
                 /\ ui_pc' = "waiting"
                 /\ UNCHANGED << event_q, completed >>
    /\ UNCHANGED << run, permits, pc, initial, new_links,
                    date_task, collected_links, link_dates, links_by_source,
                    attempts,
                    pagVars, auxVars, fileVars, cmdVars, hostVars, dateVars, mgVars, exVars >>

NextRun ==
    \/ StartGather
    \/ \E s \in Seeds : Acquire(s)
    \/ \E s \in Seeds : DetectSiteType(s)
    \/ \E s \in Seeds : SiteRaise(s)
    \/ \E s \in Seeds : CrawlMerge(s)
    \/ \E s \in Seeds : CrawlReturn(s)
    \/ \E s \in Seeds, l \in Links : StartDateWork(s, l)
    \/ \E s \in Seeds, l \in Links : FinishDateLookup(s, l)
    \/ \E s \in Seeds, l \in Links : DateLookupRaise(s, l)
    \/ \E s \in Seeds : FinishSite(s)
    \/ GatherDone
    \/ SaveUrls
    \/ Shutdown
    \/ UiLoop

\* ------------------------------------------------------------------------
\* _collect_paginated_site_parallel
\* ------------------------------------------------------------------------
max_pages == 100
max_concurrent_pages == 5     \* the default page-concurrency limit
MaxPageLimit == 3             \* other page-concurrency limits tried: 1..MaxPageLimit
MaxInitLinks == 1             \* links in the global set when the crawl starts

PageLimits == (1..MaxPageLimit) \cup {max_concurrent_pages}

\* What a page fetch (_extract_links_from_single_page) returns:
\*   "fresh": a link that no earlier page returned and the set lacks,
\*   "stale": links, all of them already in the global set,
\*   "none" : the empty set (no link, or the page is unreachable).
PageKinds == {"fresh", "stale", "none"}

\* Links are numbered so that the global set of a crawl is 1..n: the k-th
\* fresh page of a fetch returns link n + k, a stale page returns link 1.
PageLinks(kind, coll, k) ==
    CASE kind = "fresh" -> {Cardinality(coll) + k}
      [] kind = "stale" -> IF coll = {} THEN {} ELSE {1}
      [] OTHER          -> {}

\* batch_pages = list(range(page_num, min(page_num + batch_size, max_pages + 1)))
BatchLast_NoCap(pn, bs) == pn + bs - 1
BatchLast(pn, bs) ==
    (IF pn + bs < max_pages + 1 THEN pn + bs ELSE max_pages + 1) - 1
BatchPages(pn, bs) == pn .. BatchLast(pn, bs)

\* results of gather, by page, for a choice of page kinds
BatchResults(kinds, pages, coll) ==
    [p \in pages |->
        PageLinks(kinds[p], coll,
                  Cardinality({q \in pages : q <= p /\ kinds[q] = "fresh"}))]

\* The merge loop over results, in page order from page p to page last:
\* new_links = page_links - collected_links; update; any_new_links = True.
\* Yields the set, any_new_links and the pages that contributed a new link.
RECURSIVE MergeFrom_AnyLinks(_, _, _, _)
MergeFrom_AnyLinks(results, p, last, acc) ==
    IF p > last THEN acc
    ELSE LET page_links == results[p]
             new == page_links \ acc.coll
         IN  IF page_links # {}
             THEN MergeFrom_AnyLinks(results, p + 1, last,
                            [coll |-> acc.coll \cup new, any_new |-> TRUE,
                             new_pages |-> IF new # {}
                                           THEN acc.new_pages \cup {p}
                                           ELSE acc.new_pages])
             ELSE MergeFrom_AnyLinks(results, p + 1, last, acc)

RECURSIVE MergeFrom(_, _, _, _)
MergeFrom(results, p, last, acc) ==
    IF p > last THEN acc
    ELSE LET page_links == results[p]
             new == page_links \ acc.coll
         IN  IF page_links # {} /\ new # {}
             THEN MergeFrom(results, p + 1, last,
                            [coll |-> acc.coll \cup new, any_new |-> TRUE,
                             new_pages |-> acc.new_pages \cup {p}])
             ELSE MergeFrom(results, p + 1, last, acc)

\* `if not first_page_links: return 0`
FirstPageEmpty_Never(first_page_links) == FALSE
FirstPageEmpty(first_page_links) == first_page_links = {}

\* `if not any_new_links: break`
StopAfterBatch_Never(any_new_links) == FALSE
StopAfterBatch(any_new_links) == ~any_new_links

\* page_num += batch_size
NextPageNum(pn, bs) == pn + bs

\* pages in order, as fetched
RECURSIVE PageSeq(_, _)
PageSeq(from, to) == IF from > to THEN << >> ELSE << from >> \o PageSeq(from + 1, to)

\* the run while the first seed task is in its crawler
RunInCrawl ==
    /\ run = "gathering"
    /\ permits = MaxConcurrentSites - 1
    /\ pc = [s \in Seeds |-> IF s = 1 THEN "crawling" ELSE "queued"]
    /\ initial = [s \in Seeds |-> {}]
    /\ new_links = [s \in Seeds |-> {}]
    /\ date_task = [s \in Seeds |-> [l \in Links |-> "none"]]
    /\ link_dates = [l \in Links |-> NoDate]
    /\ links_by_source = << >>
    /\ attempts = [l \in Links |-> 0]
    /\ event_q = << >>
    /\ ui_pc = "waiting"
    /\ completed = 0

\* os.getenv: None, or the value as a str
Unset == [set |-> FALSE, s |-> << >>]
EnvStr(s) == [set |-> TRUE, s |-> s]

\* the extractor is not running
InitExVars ==
    /\ ex_pc = << >>
    /\ ex_url = << >>
    /\ ex_retries = 0
    /\ ex_permits = 0
    /\ ex_attempt = << >>
    /\ ex_renders = << >>
    /\ ex_good = << >>
    /\ ex_file = << >>
    /\ ex_events = << >>
    /\ ex_lost = FALSE


\* no crawler is merging
InitMgVars ==
    /\ mg_pc = << >>
    /\ mg_kind = << >>
    /\ mg_seen = << >>
    /\ mg_round = << >>
    /\ mg_counted = << >>
    /\ mg_torn = FALSE


\* no link is being resolved
InitDateVars ==
    /\ dr_pc = "idle"
    /\ dr_url = << >>
    /\ dr_genians = FALSE
    /\ dr_page = << >>
    /\ dr_stage = 1
    /\ dr_header = NoDate
    /\ dr_ret = NoDate
    /\ dr_recorded = NoDate
    /\ dr_opened = 0

\* no page is being filtered
InitHostVars ==
    /\ host_pc = "idle"
    /\ page_host = << >>
    /\ served = {}
    /\ accepted = {}
    /\ attributed = {}

\* no command under way, a collector as constructed
InitCmdVars ==
    /\ cmd_pc = "idle"
    /\ entry = "collect_run"
    /\ seed_file = "seeds"
    /\ mode = "auto"
    /\ cpu = 1
    /\ env_sites = Unset
    /\ env_pages = Unset
    /\ max_sites = 3
    /\ max_pages_c = 5
    /\ cmd_exc = "none"
    /\ browser = FALSE

\* the first run on an output file that does not exist yet
InitFileVars ==
    /\ output_file = NoFile
    /\ run_no = 1
    /\ legacy = << >>
    /\ listed = {}

\* no section is being written
InitSortVars ==
    /\ sort_pc = "idle"
    /\ sort_input = << >>
    /\ section = << >>

\* no seed is processed twice
InitTwVars ==
    /\ tw_cap = MaxConcurrentSites
    /\ tw_pc = << >>
    /\ tw_content = << >>
    /\ tw_added = << >>
    /\ tw_net = << >>
    /\ tw_overlap = FALSE

\* no navigation under way
InitNavVars ==
    /\ nav_site = "paginated"
    /\ nav_pc = "done"
    /\ nav_try = 1
    /\ nav_log = << >>
    /\ nav_sel = 1
    /\ nav_contrib = "none"

\* _detect_site_type before it is called
InitDetVars ==
    /\ det_pc = "open"
    /\ det_pattern = 1
    /\ det_elements = << >>
    /\ det_i = 1
    /\ det_ret = "none"

\* the load-more crawler before it is called
InitLmVars ==
    /\ lm_pc = "open"
    /\ lm_initial_count = 0
    /\ click_count = 0
    /\ consecutive_no_new = 0
    /\ pattern_i = 1
    /\ button_clicked = FALSE
    /\ lm_ret = 0
    /\ lm_exit = "none"
    /\ uncounted = 0
    /\ streak = 0
    /\ extractions = 0

InitPagVars ==
    /\ pag_pc = "page1"
    /\ page_num = 1
    /\ pag_ret = 0
    /\ fetched = << >>
    /\ batch_log = << >>
    /\ first_page = FALSE
    /\ links_1_5 = TRUE
    /\ nonew_6_10 = TRUE
    /\ nonew_7_11 = TRUE

\* The crawler is called: initial_count is taken and page 1 awaited.
InitPag ==
    /\ RunInCrawl
    /\ \E n \in 0..MaxInitLinks : collected_links = 1..n
    /\ batch_size \in PageLimits
    /\ initial_count = Cardinality(collected_links)
    /\ InitPagVars
    /\ InitLmVars
    /\ InitDetVars
    /\ InitNavVars
    /\ InitTwVars
    /\ InitSortVars
    /\ InitFileVars
    /\ InitCmdVars
    /\ InitHostVars
    /\ InitDateVars
    /\ InitMgVars
    /\ InitExVars

\* history of the stop-rule scenarios, after the pages of `pages` returned
\* `results` and the pages of `new_pages` contributed a new link
HistLinks(pages, results) ==
    links_1_5 /\ \A p \in pages \cap (1..5) : results[p] # {}
HistNoNew(cur, pages, new_pages, lo, hi) ==
    cur /\ (pages \cap (lo..hi)) \cap new_pages = {}

\* Page 1: first_page_links = await _extract_links_from_single_page(...);
\* an empty result returns 0, otherwise the links are merged and the first
\* batch is handed to gather.
PagFirstPage ==
    /\ pag_pc = "page1"
    /\ \E kind \in PageKinds :
          LET first_page_links == PageLinks(kind, collected_links, 1)
              results == [p \in {1} |-> first_page_links]
              new == first_page_links \ collected_links
          IN  /\ (kind = "stale" => collected_links # {})
              /\ fetched' = Append(fetched, 1)
              /\ first_page' = (first_page_links # {})
              /\ links_1_5' = HistLinks({1}, results)
              /\ IF FirstPageEmpty(first_page_links)
                 THEN /\ pag_pc' = "returned"
                      /\ pag_ret' = 0
                      /\ UNCHANGED << collected_links, page_num >>
                 ELSE /\ collected_links' = collected_links \cup first_page_links
                      /\ page_num' = 2
                      /\ pag_pc' = "batch"
                      /\ UNCHANGED pag_ret
    /\ UNCHANGED << batch_size, initial_count, batch_log, nonew_6_10,
                    nonew_7_11, runRest, auxVars, fileVars, cmdVars, hostVars, dateVars, mgVars, exVars >>

\* One iteration of `while page_num <= max_pages`: the pages of the batch
\* are fetched under the page semaphore, gather returns their results, the
\* results are merged in page order, and the loop stops or goes on.
PagBatch ==
    /\ pag_pc = "batch"
    /\ LET pages == BatchPages(page_num, batch_size)
           first == page_num
           last == BatchLast(page_num, batch_size)
       IN  \E kinds \in [pages -> PageKinds] :
           \E results \in {BatchResults(kinds, pages, collected_links)} :
           \E m \in {MergeFrom(results, first, last,
                               [coll |-> collected_links, any_new |-> FALSE,
                                new_pages |-> {}])} :
             LET next_page == NextPageNum(page_num, batch_size)
             IN  /\ fetched' = fetched \o PageSeq(first, last)
                 /\ collected_links' = m.coll
                 /\ batch_log' = Append(batch_log, m.coll # collected_links)
                 /\ links_1_5' = HistLinks(pages, results)
                 /\ nonew_6_10' = HistNoNew(nonew_6_10, pages, m.new_pages, 6, 10)
                 /\ nonew_7_11' = HistNoNew(nonew_7_11, pages, m.new_pages, 7, 11)
                 /\ IF StopAfterBatch(m.any_new)
                    THEN /\ pag_pc' = "returned"
                         /\ pag_ret' = Cardinality(m.coll) - initial_count
                         /\ UNCHANGED page_num
                    ELSE /\ page_num' = next_page
                         /\ IF next_page <= max_pages
                            THEN /\ pag_pc' = "batch"
                                 /\ UNCHANGED pag_ret
                            ELSE /\ pag_pc' = "returned"
                                 /\ pag_ret' = Cardinality(m.coll) - initial_count
    /\ UNCHANGED << batch_size, initial_count, first_page, runRest,
                    auxVars, fileVars, cmdVars, hostVars, dateVars, mgVars, exVars >>

\* new_page() or page.close() of a page fetch raises: the exception leaves
\* the crawler before anything of the awaited fetch is merged.
PagRaise ==
    /\ pag_pc \in {"page1", "batch"}
    /\ pag_pc' = "raised"
    /\ fetched' = IF pag_pc = "page1" THEN Append(fetched, 1)
                  ELSE fetched \o PageSeq(page_num,
                                          BatchLast(page_num, batch_size))
    /\ UNCHANGED << collected_links, batch_size, page_num, initial_count,
                    pag_ret, batch_log, first_page, links_1_5, nonew_6_10,
                    nonew_7_11, runRest, auxVars, fileVars, cmdVars, hostVars, dateVars, mgVars, exVars >>

NextPag ==
    \/ PagFirstPage
    \/ PagBatch
    \/ PagRaise

\* ------------------------------------------------------------------------
\* _collect_load_more_site
\* ------------------------------------------------------------------------
max_clicks == 20
limit_click_count == 3
\* button_patterns has six selectors
NumButtonPatterns == 6
\* clicks whose wait for network-idle fails, per call
MaxUncounted == 1

lmRest == << runRest, pagVars, detVars, navVars, twVars, sortVars, fileVars, cmdVars, hostVars, dateVars, mgVars, exVars >>

\* `while click_count < max_clicks and consecutive_no_new < limit_click_count`
ClickLoopGuard(cc, cnn) == cc < max_clicks /\ cnn < limit_click_count

\* `consecutive_no_new = 0` after new links, `consecutive_no_new += 1` else
NoNewAfter_NoReset(cnn, news) == IF news # {} THEN cnn ELSE cnn + 1
NoNewAfter(cnn, news) == IF news # {} THEN 0 ELSE cnn + 1

\* `if not button_clicked: break` after the patterns were tried
AfterScan_AlwaysExtract(clicked) == "extract"
AfterScan(clicked) == IF clicked THEN "extract" ELSE "return"

\* `return len(self.collected_links) - initial_count`
LmReturn(reason) ==
    /\ lm_ret' = Cardinality(collected_links) - lm_initial_count
    /\ lm_exit' = reason
    /\ lm_pc' = "close"

InitLm ==
    /\ RunInCrawl
    /\ \E n \in 0..MaxInitLinks : collected_links = 1..n
    /\ batch_size = max_concurrent_pages
    /\ initial_count = 0
    /\ InitPagVars
    /\ InitLmVars
    /\ InitDetVars
    /\ InitNavVars
    /\ InitTwVars
    /\ InitSortVars
    /\ InitFileVars
    /\ InitCmdVars
    /\ InitHostVars
    /\ InitDateVars
    /\ InitMgVars
    /\ InitExVars

\* browser_context.new_page() returns
LmOpen ==
    /\ lm_pc = "open"
    /\ lm_pc' = "initial"
    /\ UNCHANGED << lm_initial_count, click_count, consecutive_no_new,
                    pattern_i, button_clicked, lm_ret, lm_exit, uncounted,
                    streak, extractions, collected_links, lmRest >>

\* browser_context.new_page() raises, before the try block
LmOpenRaise ==
    /\ lm_pc = "open"
    /\ lm_pc' = "raised"
    /\ UNCHANGED << lm_initial_count, click_count, consecutive_no_new,
                    pattern_i, button_clicked, lm_ret, lm_exit, uncounted,
                    streak, extractions, collected_links, lmRest >>

\* goto and the 3 s wait succeed; the counters are set and the links of
\* the initial page are merged.
LmInitial ==
    /\ lm_pc = "initial"
    /\ \E kind \in PageKinds :
          \E news \in {PageLinks(kind, collected_links, 1) \ collected_links} :
              collected_links' = collected_links \cup news
    /\ lm_initial_count' = Cardinality(collected_links)
    /\ click_count' = 0
    /\ consecutive_no_new' = 0
    /\ extractions' = extractions + 1
    /\ lm_pc' = "loop"
    /\ UNCHANGED << pattern_i, button_clicked, lm_ret, lm_exit, uncounted,
                    streak, lmRest >>

\* goto or the wait raises: `except Exception: return 0`
LmInitialError ==
    /\ lm_pc = "initial"
    /\ lm_ret' = 0
    /\ lm_exit' = "error"
    /\ lm_pc' = "close"
    /\ UNCHANGED << lm_initial_count, click_count, consecutive_no_new,
                    pattern_i, button_clicked, uncounted, streak,
                    extractions, collected_links, lmRest >>

\* the head of the click loop
LmLoop ==
    /\ lm_pc = "loop"
    /\ IF ClickLoopGuard(click_count, consecutive_no_new)
       THEN /\ button_clicked' = FALSE
            /\ pattern_i' = 1
            /\ lm_pc' = "scan"
            /\ UNCHANGED << lm_ret, lm_exit >>
       ELSE /\ LmReturn(IF click_count >= max_clicks THEN "cap" ELSE "streak")
            /\ UNCHANGED << button_clicked, pattern_i >>
    /\ UNCHANGED << lm_initial_count, click_count, consecutive_no_new,
                    uncounted, streak, extractions, collected_links, lmRest >>

\* One pattern of button_patterns is tried.  "none": no visible button
\* matches; "raises": locator, is_visible or click raises; "wait_raises":
\* the click is done and the wait for network-idle raises before
\* click_count += 1; "clicked": click and waits succeed.  Every exception
\* is swallowed by `except Exception: continue`.
LmPattern ==
    /\ lm_pc = "scan"
    /\ \E outcome \in {"none", "raises", "wait_raises", "clicked"} :
          /\ outcome = "wait_raises" => uncounted < MaxUncounted
          /\ uncounted' = IF outcome = "wait_raises" THEN uncounted + 1
                          ELSE uncounted
          /\ click_count' = IF outcome = "clicked" THEN click_count + 1
                            ELSE click_count
          /\ button_clicked' = (outcome = "clicked")
          /\ IF outcome # "clicked" /\ pattern_i < NumButtonPatterns
             THEN /\ pattern_i' = pattern_i + 1
                  /\ UNCHANGED << lm_pc, lm_ret, lm_exit >>
             ELSE /\ pattern_i' = pattern_i
                  /\ IF AfterScan(outcome = "clicked") = "extract"
                     THEN /\ lm_pc' = "extract"
                          /\ UNCHANGED << lm_ret, lm_exit >>
                     ELSE LmReturn("no_button")
    /\ UNCHANGED << lm_initial_count, consecutive_no_new, streak,
                    extractions, collected_links, lmRest >>

\* _extract_links after a click, the merge of the new links and the update
\* of the no-new counter
LmExtract ==
    /\ lm_pc = "extract"
    /\ \E kind \in PageKinds :
          \E news \in {PageLinks(kind, collected_links, 1) \ collected_links} :
              /\ collected_links' = collected_links \cup news
              /\ consecutive_no_new' = NoNewAfter(consecutive_no_new, news)
    /\ streak' = IF collected_links' # collected_links THEN 0 ELSE streak + 1
    /\ extractions' = extractions + 1
    /\ lm_pc' = "loop"
    /\ UNCHANGED << lm_initial_count, click_count, pattern_i,
                    button_clicked, lm_ret, lm_exit, uncounted, lmRest >>

\* `finally: await page.close()` returns
LmClose ==
    /\ lm_pc = "close"
    /\ lm_pc' = "done"
    /\ UNCHANGED << lm_initial_count, click_count, consecutive_no_new,
                    pattern_i, button_clicked, lm_ret, lm_exit, uncounted,
                    streak, extractions, collected_links, lmRest >>

\* `finally: await page.close()` raises
LmCloseRaise ==
    /\ lm_pc = "close"
    /\ lm_pc' = "raised"
    /\ UNCHANGED << lm_initial_count, click_count, consecutive_no_new,
                    pattern_i, button_clicked, lm_ret, lm_exit, uncounted,
                    streak, extractions, collected_links, lmRest >>

NextLm ==
    \/ LmOpen
    \/ LmOpenRaise
    \/ LmInitial
    \/ LmInitialError
    \/ LmLoop
    \/ LmPattern
    \/ LmExtract
    \/ LmClose
    \/ LmCloseRaise

\* ------------------------------------------------------------------------
\* _detect_site_type
\* ------------------------------------------------------------------------
\* load_more_patterns has seven selectors
NumLoadMorePatterns == 7
\* elements located per pattern
MaxElements == 2

\* An element located for a pattern: not visible, visible with a text
\* without keyword, visible with a text holding "load more", "more
\* stories" or "load", or one whose is_visible / text_content raises.
ElementKinds == {"hidden", "plain", "keyword", "raises"}
ElementLists == UNION { [1..n -> ElementKinds] : n \in 0..MaxElements }

detRest == << runVars, pagVars, lmVars, navVars, twVars, sortVars, fileVars, cmdVars, hostVars, dateVars, mgVars, exVars >>

\* the run while the first seed task is in _detect_site_type
InitDet ==
    /\ RunInCrawl
    /\ collected_links = {}
    /\ batch_size = max_concurrent_pages
    /\ initial_count = 0
    /\ InitPagVars
    /\ InitLmVars
    /\ InitDetVars
    /\ InitNavVars
    /\ InitTwVars
    /\ InitSortVars
    /\ InitFileVars
    /\ InitCmdVars
    /\ InitHostVars
    /\ InitDateVars
    /\ InitMgVars
    /\ InitExVars

\* browser_context.new_page() returns
DetOpen ==
    /\ det_pc = "open"
    /\ det_pc' = "goto"
    /\ UNCHANGED << det_pattern, det_elements, det_i, det_ret, detRest >>

\* browser_context.new_page() raises, before the try block
DetOpenRaise ==
    /\ det_pc = "open"
    /\ det_pc' = "raised"
    /\ UNCHANGED << det_pattern, det_elements, det_i, det_ret, detRest >>

\* goto and the 1 s wait succeed
DetGoto ==
    /\ det_pc = "goto"
    /\ det_pc' = "locate"
    /\ UNCHANGED << det_pattern, det_elements, det_i, det_ret, detRest >>

\* goto or the wait raises: `except Exception: return "pagination"`
DetGotoFail ==
    /\ det_pc = "goto"
    /\ det_ret' = "pagination"
    /\ det_pc' = "close"
    /\ UNCHANGED << det_pattern, det_elements, det_i, detRest >>

\* the step after a pattern is finished without a match: the next pattern,
\* or `return "pagination"` after the last one
DetNextPattern ==
    IF det_pattern < NumLoadMorePatterns
    THEN /\ det_pattern' = det_pattern + 1
         /\ det_pc' = "locate"
         /\ UNCHANGED det_ret
    ELSE /\ det_ret' = "pagination"
         /\ det_pc' = "close"
         /\ UNCHANGED det_pattern

\* `elements = await page.locator(pattern).all()`
DetLocate ==
    /\ det_pc = "locate"
    /\ \E es \in ElementLists : det_elements' = es
    /\ det_i' = 1
    /\ det_pc' = "element"
    /\ UNCHANGED << det_pattern, det_ret, detRest >>

\* page.locator(pattern).all() raises: `except Exception: continue`
DetLocateRaise ==
    /\ det_pc = "locate"
    /\ DetNextPattern
    /\ UNCHANGED << det_elements, det_i, detRest >>

\* one element of the pattern is examined
DetElement ==
    /\ det_pc = "element"
    /\ IF det_i > Len(det_elements)
       THEN /\ DetNextPattern
            /\ UNCHANGED det_i
       ELSE IF det_elements[det_i] = "keyword"
       THEN /\ det_ret' = "load_more"
            /\ det_pc' = "close"
            /\ UNCHANGED << det_pattern, det_i >>
       ELSE IF det_elements[det_i] = "raises"
       THEN /\ DetNextPattern
            /\ UNCHANGED det_i
       ELSE /\ det_i' = det_i + 1
            /\ UNCHANGED << det_pc, det_pattern, det_ret >>
    /\ UNCHANGED << det_elements, detRest >>

\* `finally: await page.close()` returns
DetClose ==
    /\ det_pc = "close"
    /\ det_pc' = "returned"
    /\ UNCHANGED << det_pattern, det_elements, det_i, det_ret, detRest >>

\* `finally: await page.close()` raises
DetCloseRaise ==
    /\ det_pc = "close"
    /\ det_pc' = "raised"
    /\ UNCHANGED << det_pattern, det_elements, det_i, det_ret, detRest >>

NextDet ==
    \/ DetOpen
    \/ DetOpenRaise
    \/ DetGoto
    \/ DetGotoFail
    \/ DetLocate
    \/ DetLocateRaise
    \/ DetElement
    \/ DetClose
    \/ DetCloseRaise

\* ------------------------------------------------------------------------
\* Navigation at the three call sites
\* ------------------------------------------------------------------------
\* outcome of a page.goto: it raises (timeout, DNS, connection) or returns
\* a response with a status
GotoRaises == 0
Statuses == {200, 301, 404, 500}
GotoOutcomes == {GotoRaises} \cup Statuses
\* listing_selectors of the default branch has four entries
NumListingSelectors == 4
NavSites == {"load_more", "paginated", "date"}

navRest == << runVars, pagVars, lmVars, detVars, twVars, sortVars, fileVars, cmdVars, hostVars, dateVars, mgVars, exVars >>

\* `if resp and resp.status >= 400: return False`, made in try 1 and try 2
StatusRejected(try, status) == try \in {1, 2} /\ status >= 400

InitNav ==
    /\ RunInCrawl
    /\ collected_links = {}
    /\ batch_size = max_concurrent_pages
    /\ initial_count = 0
    /\ InitPagVars
    /\ InitLmVars
    /\ InitDetVars
    /\ nav_site \in NavSites
    /\ nav_pc = "goto"
    /\ nav_try = 1
    /\ nav_log = << >>
    /\ nav_sel = 1
    /\ nav_contrib = "none"
    /\ InitTwVars
    /\ InitSortVars
    /\ InitFileVars
    /\ InitCmdVars
    /\ InitHostVars
    /\ InitDateVars
    /\ InitMgVars
    /\ InitExVars

\* page.goto of _collect_load_more_site (line 425) and of
\* _extract_date_from_page (line 170): an exception is caught by the outer
\* handler and nothing is read; any response leads on to the reading.
NavGotoSingle ==
    /\ nav_site \in {"load_more", "date"}
    /\ nav_pc = "goto"
    /\ \E out \in GotoOutcomes :
          /\ nav_log' = Append(nav_log, out)
          /\ nav_pc' = IF out = GotoRaises THEN "done" ELSE "extract"
    /\ UNCHANGED << nav_site, nav_try, nav_sel, nav_contrib, navRest >>

\* one page.goto of _goto_with_retry: try 1 (networkidle), try 2
\* (domcontentloaded) or try 3 (commit, then wait_for_load_state)
NavGotoRetry ==
    /\ nav_site = "paginated"
    /\ nav_pc = "goto"
    /\ \E out \in GotoOutcomes :
          /\ nav_log' = Append(nav_log, out)
          /\ IF out = GotoRaises
             THEN IF nav_try < 3
                  THEN /\ nav_try' = nav_try + 1
                       /\ UNCHANGED nav_pc
                  ELSE /\ nav_pc' = "done"
                       /\ UNCHANGED nav_try
             ELSE IF StatusRejected(nav_try, out)
             THEN /\ nav_pc' = "done"
                  /\ UNCHANGED nav_try
             ELSE /\ nav_pc' = "selectors"
                  /\ UNCHANGED nav_try
    /\ nav_sel' = 1
    /\ UNCHANGED << nav_site, nav_contrib, navRest >>

\* wait_for_selector on the next listing selector: found (return True), or
\* it times out and the loop goes on; after the last one `return True`
NavSelector ==
    /\ nav_pc = "selectors"
    /\ \E found \in BOOLEAN :
          IF found \/ nav_sel = NumListingSelectors
          THEN /\ nav_pc' = "extract"
               /\ UNCHANGED nav_sel
          ELSE /\ nav_sel' = nav_sel + 1
               /\ UNCHANGED nav_pc
    /\ UNCHANGED << nav_site, nav_try, nav_log, nav_contrib, navRest >>

\* wait_for_load_state or wait_for_timeout raises after the goto of a try:
\* the handler of the try moves to the next try, the last one returns False
NavWaitRaises ==
    /\ nav_pc = "selectors"
    /\ nav_try \in {2, 3}
    /\ IF nav_try < 3
       THEN /\ nav_try' = nav_try + 1
            /\ nav_pc' = "goto"
       ELSE /\ nav_pc' = "done"
            /\ UNCHANGED nav_try
    /\ UNCHANGED << nav_site, nav_log, nav_sel, nav_contrib, navRest >>

\* the page is read: _extract_links finds links or none, the date stages
\* find a date or none
NavExtract ==
    /\ nav_pc = "extract"
    /\ \E found \in BOOLEAN :
          nav_contrib' = IF ~found THEN "none"
                         ELSE IF nav_site = "date" THEN "date" ELSE "links"
    /\ nav_pc' = "done"
    /\ UNCHANGED << nav_site, nav_try, nav_log, nav_sel, navRest >>

NextNav ==
    \/ NavGotoSingle
    \/ NavGotoRetry
    \/ NavSelector
    \/ NavWaitRaises
    \/ NavExtract

\* ------------------------------------------------------------------------
\* The same paginated seed listed twice in the seed file
\* ------------------------------------------------------------------------
\* pages of the site that serve links
MaxContentPages == 3

\* the two seed tasks of the seed, in seed-file order
Passes == {1, 2}

twRest == << run, permits, pc, date_task, link_dates, attempts, event_q,
             ui_pc, completed, pagVars, lmVars, detVars, navVars, sortVars,
             fileVars, cmdVars, hostVars, dateVars, mgVars, exVars >>

\* the site as served during the run: the links each listing page passes
\* through the filter; pages past the last one serve none
SiteContents == [1..MaxContentPages -> SUBSET SiteLinksOf[1]]
ContentAt(content, p) == IF p \in DOMAIN content THEN content[p] ELSE {}

\* the batch loop of _collect_paginated_site_parallel from page pn on
RECURSIVE CrawlBatches(_, _, _, _)
CrawlBatches(content, coll, pn, bs) ==
    IF pn > max_pages THEN coll
    ELSE LET results == [p \in BatchPages(pn, bs) |-> ContentAt(content, p)]
             m == MergeFrom(results, pn, BatchLast(pn, bs),
                            [coll |-> coll, any_new |-> FALSE,
                             new_pages |-> {}])
         IN  IF StopAfterBatch(m.any_new) THEN m.coll
             ELSE CrawlBatches(content, m.coll, NextPageNum(pn, bs), bs)

\* _collect_paginated_site_parallel on a site with the given content
CrawlPaginated(content, coll, bs) ==
    LET first_page_links == ContentAt(content, 1)
    IN  IF FirstPageEmpty(first_page_links) THEN coll
        ELSE CrawlBatches(content, coll \cup first_page_links, 2, bs)

\* the run is gathering the two tasks under a site cap of tw_cap
InitTw ==
    /\ RunInCrawl
    /\ collected_links \in SUBSET Links
    /\ batch_size \in PageLimits
    /\ initial_count = 0
    /\ InitPagVars
    /\ InitLmVars
    /\ InitDetVars
    /\ InitNavVars
    /\ tw_cap \in 1..MaxConcurrentSites
    /\ tw_content \in SiteContents
    /\ tw_pc = [t \in Passes |-> "queued"]
    /\ tw_added = [t \in Passes |-> {}]
    /\ tw_net = [t \in Passes |-> 0]
    /\ tw_overlap = FALSE
    /\ InitSortVars
    /\ InitFileVars
    /\ InitCmdVars
    /\ InitHostVars
    /\ InitDateVars
    /\ InitMgVars
    /\ InitExVars

TwInside == { t \in Passes : tw_pc[t] \in {"crawl", "attribute"} }

\* a task passes the site semaphore, in seed order, and takes its snapshot
TwStart(t) ==
    /\ tw_pc[t] = "queued"
    /\ \A u \in Passes : u < t => tw_pc[u] # "queued"
    /\ SemCanAcquire(tw_cap - Cardinality(TwInside))
    /\ initial' = [initial EXCEPT ![t] = Snapshot(collected_links)]
    /\ tw_pc' = [tw_pc EXCEPT ![t] = "crawl"]
    /\ tw_overlap' = (tw_overlap \/ TwInside # {})
    /\ UNCHANGED << collected_links, new_links, links_by_source, tw_cap,
                    tw_content, tw_added, tw_net, twRest >>

\* the paginated crawler of a task runs on the site
TwCrawl(t) ==
    /\ tw_pc[t] = "crawl"
    /\ \E coll \in {CrawlPaginated(tw_content, collected_links, batch_size)} :
          /\ collected_links' = coll
          /\ tw_added' = [tw_added EXCEPT ![t] = coll \ collected_links]
    /\ tw_pc' = [tw_pc EXCEPT ![t] = "attribute"]
    /\ UNCHANGED << initial, new_links, links_by_source, tw_cap, tw_content,
                    tw_net, tw_overlap, twRest >>

\* new_links_for_this_site of a task is computed and stored under the
\* seed's URL
TwAttribute(t) ==
    /\ tw_pc[t] = "attribute"
    /\ \E news \in {NewLinksAgainst(initial[t], 1)} :
          /\ new_links' = [new_links EXCEPT ![t] = news]
          /\ links_by_source' = DictSet(links_by_source, SeedUrl(1), news)
          /\ tw_net' = [tw_net EXCEPT ![t] = Cardinality(news)]
    /\ tw_pc' = [tw_pc EXCEPT ![t] = "done"]
    /\ UNCHANGED << collected_links, initial, tw_cap, tw_content, tw_added,
                    tw_overlap, twRest >>

NextTw ==
    \/ \E t \in Passes : TwStart(t)
    \/ \E t \in Passes : TwCrawl(t)
    \/ \E t \in Passes : TwAttribute(t)

\* ------------------------------------------------------------------------
\* _save_urls_by_section: the order of the links of a section
\* ------------------------------------------------------------------------
\* dates the resolver can store, as years: _parse_date_string accepts any
\* year (ISO strings, "%d %B %Y", Last-Modified headers), _date_from_url
\* only 20xx
DateValues == {1969, 1970, 2024, 2025}

sortRest == << run, permits, pc, initial, new_links, date_task,
               collected_links, links_by_source, attempts, event_q, ui_pc,
               completed, pagVars, lmVars, detVars, navVars, twVars, fileVars, cmdVars, hostVars, dateVars, mgVars, exVars >>

InitSort ==
    /\ run = "closing"
    /\ permits = MaxConcurrentSites
    /\ pc = [s \in Seeds |-> "done"]
    /\ initial = [s \in Seeds |-> {}]
    /\ new_links = [s \in Seeds |-> {}]
    /\ date_task = [s \in Seeds |-> [l \in Links |-> "none"]]
    /\ collected_links = Links
    /\ links_by_source = << >>
    /\ attempts = [l \in Links |-> 0]
    /\ event_q = << >>
    /\ ui_pc = "waiting"
    /\ completed = 0
    /\ batch_size = max_concurrent_pages
    /\ initial_count = 0
    /\ InitPagVars
    /\ InitLmVars
    /\ InitDetVars
    /\ InitNavVars
    /\ InitTwVars
    /\ link_dates \in [Links -> {NoDate} \cup DateValues]
    /\ sort_input \in UNION { ListsOf(S) : S \in (SUBSET Links) \ {{}} }
    /\ section = << >>
    /\ sort_pc = "sorting"
    /\ InitFileVars
    /\ InitCmdVars
    /\ InitHostVars
    /\ InitDateVars
    /\ InitMgVars
    /\ InitExVars

\* the links of one seed are sorted and written to its section
SaveSection ==
    /\ sort_pc = "sorting"
    /\ section' = SortedDesc(sort_input, link_dates)
    /\ sort_pc' = "written"
    /\ UNCHANGED << link_dates, sort_input, sortRest >>

NextSort == SaveSection

\* ------------------------------------------------------------------------
\* Consecutive runs on one output file
\* ------------------------------------------------------------------------
MaxRuns == 2

\* a line of a file that no run wrote
TextLine(n) == Line("text", n)
\* what the output file can be before the first run: absent, empty, blank,
\* notes, notes with a link kept by hand
InitialFiles ==
    { NoFile, FileOf(<< >>), FileOf(<< BlankLine >>),
      FileOf(<< TextLine(1) >>), FileOf(<< TextLine(1), LinkLine(1) >>) }

fileRest == << run, permits, pc, initial, new_links, date_task, attempts,
               event_q, ui_pc, completed, pagVars, auxVars, cmdVars, hostVars, dateVars, mgVars, exVars >>

InitFile ==
    /\ InitRun
    /\ batch_size = max_concurrent_pages
    /\ initial_count = 0
    /\ InitPagVars
    /\ InitLmVars
    /\ InitDetVars
    /\ InitNavVars
    /\ InitTwVars
    /\ InitSortVars
    /\ output_file \in InitialFiles
    /\ run_no = 1
    /\ legacy = ExistingContent(output_file)
    /\ listed = {}
    /\ InitCmdVars
    /\ InitHostVars
    /\ InitDateVars
    /\ InitMgVars
    /\ InitExVars

\* the links of the sections _save_urls_by_section writes for d
RECURSIVE SectionLinks(_)
SectionLinks(d) ==
    IF d = << >> THEN {}
    ELSE d[Len(d)].links \cup SectionLinks(SubSeq(d, 1, Len(d) - 1))

\* A run of a new LinkCollector (empty global set, date map and attribution
\* map) on a seed file holding the first seed reaches _save_urls_by_section
\* with coll collected.
FileRunSave ==
    /\ run_no <= MaxRuns
    /\ \E coll \in SUBSET SiteLinksOf[1] :
          /\ collected_links' = coll
          /\ link_dates' = [l \in Links |-> NoDate]
          /\ links_by_source' =
                DictSet(<< >>, SeedUrl(1), coll \cap FromDomainOf[1])
          /\ \E d \in ListDicts(links_by_source') :
                output_file' = SaveUrlsBySection(output_file, d, link_dates',
                                                 coll, run_no)
          /\ listed' = listed \cup SectionLinks(links_by_source')
    /\ run_no' = run_no + 1
    /\ UNCHANGED << legacy, fileRest >>

\* A run that ends before _save_urls_by_section: the seed list is empty, or
\* an exception left collect_links.
FileRunNoSave ==
    /\ run_no <= MaxRuns
    /\ collected_links' = {}
    /\ link_dates' = [l \in Links |-> NoDate]
    /\ links_by_source' = << >>
    /\ run_no' = run_no + 1
    /\ UNCHANGED << output_file, legacy, listed, fileRest >>

NextFile == FileRunSave \/ FileRunNoSave

\* ------------------------------------------------------------------------
\* The command layer: _decide_concurrency and the reading of the seed file
\* ------------------------------------------------------------------------
\* values of CTS_MAX_CONCURRENT_SITES / CTS_MAX_CONCURRENT_PAGES
EnvValues ==
    { Unset, EnvStr(<< >>), EnvStr(<<"0">>), EnvStr(<<"1">>), EnvStr(<<"4">>),
      EnvStr(<<"1", "2">>), EnvStr(<<"-", "3">>), EnvStr(<<"a", "b", "c">>) }
\* values of multiprocessing.cpu_count()
CpuCounts == {1, 2, 4, 8}
Modes == {"auto", "safe", "aggressive"}

DigitValue == [c \in {"0", "1", "2", "3", "4", "5", "6", "7", "8", "9"} |->
                 CASE c = "0" -> 0 [] c = "1" -> 1 [] c = "2" -> 2
                   [] c = "3" -> 3 [] c = "4" -> 4 [] c = "5" -> 5
                   [] c = "6" -> 6 [] c = "7" -> 7 [] c = "8" -> 8
                   [] c = "9" -> 9]
\* str.isdigit(): not empty and every character a digit
IsDigit(s) == s # << >> /\ \A i \in 1..Len(s) : s[i] \in DOMAIN DigitValue
\* int(s) of a digit string
RECURSIVE IntOf(_)
IntOf(s) ==
    IF s = << >> THEN 0
    ELSE 10 * IntOf(SubSeq(s, 1, Len(s) - 1)) + DigitValue[s[Len(s)]]

Min(a, b) == IF a <= b THEN a ELSE b
Max(a, b) == IF a >= b THEN a ELSE b

\* the values of the mode: << sites, pages >>
Preset(m, cpus) ==
    IF m = "safe" THEN << 2, 3 >>
    ELSE IF m = "aggressive" THEN << 6, 8 >>
    ELSE << Min(3, Max(1, Max(1, cpus) \div 2)), 5 >>

\* `if env and env.isdigit(): value = max(1, int(env))`
EnvOverride(env, value) ==
    IF env.set /\ env.s # << >> /\ IsDigit(env.s)
    THEN Max(1, IntOf(env.s))
    ELSE value

DecideConcurrency(m, cpus, e_sites, e_pages) ==
    << EnvOverride(e_sites, Preset(m, cpus)[1]),
       EnvOverride(e_pages, Preset(m, cpus)[2]) >>

\* the ways a collection is started: collect_run of commands.py, and
\* collect_links of a LinkCollector called directly (main, the app's cli)
Entries == {"collect_run", "collect_links"}
\* the seed file: absent, without a seed line, with seed lines
SeedFiles == {"missing", "empty", "seeds"}

cmdRest == << runVars, pagVars, auxVars, fileVars, hostVars, dateVars, mgVars, exVars >>

InitCmd ==
    /\ InitRun
    /\ batch_size = max_concurrent_pages
    /\ initial_count = 0
    /\ InitPagVars
    /\ InitLmVars
    /\ InitDetVars
    /\ InitNavVars
    /\ InitTwVars
    /\ InitSortVars
    /\ InitFileVars
    /\ entry \in Entries
    /\ seed_file \in SeedFiles
    /\ mode \in Modes
    /\ cpu \in CpuCounts
    /\ env_sites \in EnvValues
    /\ env_pages \in EnvValues
    /\ cmd_pc = IF entry = "collect_run" THEN "decide" ELSE "read"
    /\ max_sites = 3
    /\ max_pages_c = 5
    /\ cmd_exc = "none"
    /\ browser = FALSE
    /\ InitHostVars
    /\ InitDateVars
    /\ InitMgVars
    /\ InitExVars

\* collect_run: the output directory is made, the caps are decided and set
CmdDecide ==
    /\ cmd_pc = "decide"
    /\ max_sites' = DecideConcurrency(mode, cpu, env_sites, env_pages)[1]
    /\ max_pages_c' = DecideConcurrency(mode, cpu, env_sites, env_pages)[2]
    /\ cmd_pc' = "open"
    /\ UNCHANGED << entry, seed_file, mode, cpu, env_sites, env_pages,
                    cmd_exc, browser, cmdRest >>

\* _collect_with_ui: `with open(base_url_file) as f`, outside any try; with
\* the file read, collect_links and ui_loop are gathered
CmdOpenSeeds ==
    /\ cmd_pc = "open"
    /\ IF seed_file = "missing"
       THEN /\ cmd_pc' = "raised"
            /\ cmd_exc' = "FileNotFoundError"
       ELSE /\ cmd_pc' = "read"
            /\ UNCHANGED cmd_exc
    /\ UNCHANGED << entry, seed_file, mode, cpu, env_sites, env_pages,
                    max_sites, max_pages_c, browser, cmdRest >>

\* collect_links: _read_base_urls gives [] for a missing file; without
\* seeds collect_links returns, with seeds the browser is launched
CmdReadBaseUrls ==
    /\ cmd_pc = "read"
    /\ IF seed_file = "seeds"
       THEN /\ cmd_pc' = "collecting"
            /\ browser' = TRUE
       ELSE /\ cmd_pc' = "noop"
            /\ UNCHANGED browser
    /\ UNCHANGED << entry, seed_file, mode, cpu, env_sites, env_pages,
                    max_sites, max_pages_c, cmd_exc, cmdRest >>

NextCmd == CmdDecide \/ CmdOpenSeeds \/ CmdReadBaseUrls

\* ------------------------------------------------------------------------
\* The two host checks on the links of a page
\* ------------------------------------------------------------------------
MaxServed == 3

H_evil == <<"f","o","r","t","i","n","e","t",".","c","o","m",".","e","v","i","l",".","e","x","a","m","p","l","e">>
H_example == <<"e","x","a","m","p","l","e",".","o","r","g">>
H_blog_checkpoint == <<"b","l","o","g",".","c","h","e","c","k","p","o","i","n","t",".","c","o","m">>
\* hosts of pages and of the links they serve
Hosts == { H_asec, H_www_fortinet, H_fortinet, H_research_checkpoint,
           H_checkpoint, H_thedfirreport, H_www_genians, H_genians,
           H_evil, H_example, H_blog_checkpoint }

hostRest == << runVars, pagVars, auxVars, fileVars, cmdVars, dateVars, mgVars, exVars >>

InitHost ==
    /\ InitRun
    /\ batch_size = max_concurrent_pages
    /\ initial_count = 0
    /\ InitPagVars
    /\ InitLmVars
    /\ InitDetVars
    /\ InitNavVars
    /\ InitTwVars
    /\ InitSortVars
    /\ InitFileVars
    /\ InitCmdVars
    /\ host_pc = "page"
    /\ page_host \in Hosts
    /\ served \in { S \in SUBSET Hosts : Cardinality(S) <= MaxServed }
    /\ accepted = {}
    /\ attributed = {}
    /\ InitDateVars
    /\ InitMgVars
    /\ InitExVars

\* _extract_links on a page of the seed: the hosts of the links that pass
\* the final check of _is_valid_universal_link
HostExtract ==
    /\ host_pc = "page"
    /\ accepted' = { h \in served : FilterHostCheck(h, page_host) }
    /\ host_pc' = "extracted"
    /\ UNCHANGED << page_host, served, attributed, hostRest >>

\* _process_single_site: the collected links that pass _is_link_from_domain
\* against the seed's host
HostAttribute ==
    /\ host_pc = "extracted"
    /\ attributed' = { h \in accepted : IsLinkFromDomain(h, page_host) }
    /\ host_pc' = "attributed"
    /\ UNCHANGED << page_host, served, accepted, hostRest >>

NextHost == HostExtract \/ HostAttribute

\* ------------------------------------------------------------------------
\* Date resolution of one link: work(url) of _enrich_dates, _date_from_url
\* and _extract_date_from_page
\* ------------------------------------------------------------------------
\* a datetime as a number yyyymmdd
DateNum(y, m, d) == y * 10000 + m * 100 + d

DaysIn(y, m) ==
    IF m \in {4, 6, 9, 11} THEN 30
    ELSE IF m = 2
         THEN (IF (y % 4 = 0 /\ y % 100 # 0) \/ y % 400 = 0 THEN 29 ELSE 28)
         ELSE 31
\* datetime(y, mo, d) does not raise ValueError
ValidDate(y, m, d) == y \in 1..9999 /\ m \in 1..12 /\ d \in 1..DaysIn(y, m)
\* the ValueError that datetime() raises, as a result value
ValueError == 0 - 1
\* datetime(int(y), int(mo), int(d))
Datetime(y, m, d) == IF ValidDate(y, m, d) THEN DateNum(y, m, d) ELSE ValueError
\* _safe_dt without its except clause
SafeDt_NoCatch(y, m, d) == Datetime(y, m, d)
\* _safe_dt: `except ValueError: return None`
SafeDt(y, m, d) ==
    IF Datetime(y, m, d) = ValueError THEN NoDate ELSE Datetime(y, m, d)

\* The date part of a URL path: "none", or year, month and day between
\* slashes with the separator sep, as in /2024/03/05/ and /2024-03-05/.
NoUrlDate == [sep |-> "none", y |-> 0, m |-> 0, d |-> 0]
UrlSeps == {"/", "-", "."}
UrlYmds == { << 2024, 3, 5 >>, << 2024, 13, 5 >>, << 2024, 2, 30 >>,
             << 1999, 12, 31 >> }
UrlKinds ==
    { NoUrlDate } \cup
    { [sep |-> s, y |-> t[1], m |-> t[2], d |-> t[3]] : s \in UrlSeps, t \in UrlYmds }

\* `(20\d{2})`, `([01]?\d)`, `([0-3]?\d)`: what the groups can match
MatchesTokens(u) == u.y \in 2000..2099 /\ u.m \in 0..19 /\ u.d \in 0..39

\* _date_from_url: the first pattern takes "/" separators, the second one
\* any of "-", ".", "/"; the match found is validated by _safe_dt
DateFromUrlPath(u) ==
    IF u.sep = "/" /\ MatchesTokens(u) THEN SafeDt(u.y, u.m, u.d)
    ELSE IF u.sep \in {"-", ".", "/"} /\ MatchesTokens(u) THEN SafeDt(u.y, u.m, u.d)
    ELSE NoDate

\* the sources of a date on an article page, and what a source can hold:
\* nothing parseable, a parseable date, or its lookup raises
Sources == {"jsonld", "meta", "time", "near", "header", "raw"}
\* "invalid": the source holds a date string of an impossible calendar date
SourceOutcomes == {"none", "date", "invalid", "raises"}
Pages == [Sources -> SourceOutcomes]
\* the date a source holds (one value per source, to tell them apart)
SourceDate(src) ==
    CASE src = "jsonld" -> DateNum(2021, 1, 1)
      [] src = "meta"   -> DateNum(2022, 2, 2)
      [] src = "time"   -> DateNum(2023, 3, 3)
      [] src = "near"   -> DateNum(2024, 4, 4)
      [] src = "header" -> DateNum(2025, 5, 5)
      [] src = "raw"    -> DateNum(2026, 6, 6)
\* a date string: nothing, or year, month and day around "-", "/" or "."
NoText == [kind |-> "none", y |-> 0, m |-> 0, d |-> 0]
YmdText(y, m, d) == [kind |-> "ymd", y |-> y, m |-> m, d |-> d]
\* the impossible date an "invalid" source holds (one per source)
InvalidText(src) ==
    CASE src = "jsonld" -> YmdText(2024, 13, 5)
      [] src = "meta"   -> YmdText(2024, 2, 30)
      [] src = "time"   -> YmdText(2023, 2, 29)
      [] src = "near"   -> YmdText(2025, 4, 31)
      [] src = "header" -> YmdText(2024, 0, 10)
      [] src = "raw"    -> YmdText(2024, 12, 32)
\* the string that the lookup of a source hands to _parse_date_string
SourceText(src, outcome) ==
    IF outcome = "date"
    THEN LET n == SourceDate(src)
         IN  YmdText(n \div 10000, (n \div 100) % 100, n % 100)
    ELSE IF outcome = "invalid" THEN InvalidText(src)
    ELSE NoText
\* _parse_date_string: `if not s: return None`; the dateutil and
\* fromisoformat attempts return a date or raise, which is swallowed; the
\* yyyy-mm-dd pattern then hands its groups to _safe_dt
ParseDateString(s) ==
    IF s.kind = "none" THEN NoDate
    ELSE IF Datetime(s.y, s.m, s.d) # ValueError THEN Datetime(s.y, s.m, s.d)
    ELSE IF MatchesTokens(s) THEN SafeDt(s.y, s.m, s.d)
    ELSE NoDate
\* what a stage sees of a parse: an exception is swallowed by the stage's
\* own except clause (stages 0 to 4) or by the outer one (stage 6)
Swallowed(dt) == IF dt = ValueError THEN NoDate ELSE dt

\* the date a listing card gave the link before its resolution
ListingDate == DateNum(2020, 10, 10)

\* the order of the stages 1) to 6) of _extract_date_from_page
StageOrder_HeaderFirst == << "header", "jsonld", "meta", "time", "near", "raw" >>
StageOrder == << "jsonld", "meta", "time", "near", "header", "raw" >>

dateRest == << runVars, pagVars, auxVars, fileVars, cmdVars, hostVars, mgVars, exVars >>

InitDate ==
    /\ InitRun
    /\ batch_size = max_concurrent_pages
    /\ initial_count = 0
    /\ InitPagVars
    /\ InitLmVars
    /\ InitDetVars
    /\ InitNavVars
    /\ InitTwVars
    /\ InitSortVars
    /\ InitFileVars
    /\ InitCmdVars
    /\ InitHostVars
    /\ dr_pc = "work"
    /\ dr_url \in UrlKinds
    /\ dr_genians \in BOOLEAN
    /\ dr_page = << >>
    /\ dr_stage = 1
    /\ dr_header = NoDate
    /\ dr_ret = NoDate
    /\ dr_recorded \in {NoDate, ListingDate}
    /\ dr_opened = 0
    /\ InitMgVars
    /\ InitExVars

\* work(url) up to its first await: the memo test, then the URL inference
DrWork ==
    /\ dr_pc = "work"
    /\ IF dr_recorded # NoDate
       THEN /\ dr_pc' = "done"
            /\ UNCHANGED dr_recorded
       ELSE IF DateFromUrlPath(dr_url) = ValueError
            THEN /\ dr_pc' = "raised"
                 /\ UNCHANGED dr_recorded
       ELSE IF DateFromUrlPath(dr_url) # NoDate
            THEN /\ dr_recorded' = DateFromUrlPath(dr_url)
                 /\ dr_pc' = "done"
            ELSE /\ dr_pc' = "newpage"
                 /\ UNCHANGED dr_recorded
    /\ UNCHANGED << dr_url, dr_genians, dr_page, dr_stage, dr_header, dr_ret,
                    dr_opened, dateRest >>

\* new_page() and goto succeed; 0) the Last-Modified header is parsed
DrOpenPage ==
    /\ dr_pc = "newpage"
    /\ dr_opened' = dr_opened + 1
    /\ \E page \in Pages :
          /\ dr_page' = page
          /\ dr_header' =
                 Swallowed(ParseDateString(SourceText("header", page["header"])))
    /\ dr_stage' = 1
    /\ dr_pc' = "stages"
    /\ UNCHANGED << dr_url, dr_genians, dr_ret, dr_recorded, dateRest >>

\* goto raises: the outer except returns None, the page is closed
DrGotoFail ==
    /\ dr_pc = "newpage"
    /\ dr_opened' = dr_opened + 1
    /\ dr_ret' = NoDate
    /\ dr_pc' = "returned"
    /\ UNCHANGED << dr_url, dr_genians, dr_page, dr_stage, dr_header,
                    dr_recorded, dateRest >>

\* the value returned at the stage of source src, NoDate to go on: stages 1
\* to 3 return a parsed date and swallow what their lookups raise, stage 4
\* is made for genians hosts only, stage 5 returns header_dt if there is one
StageResult(src, page, header_dt, genians) ==
    IF src = "header" THEN header_dt
    ELSE IF src = "near" /\ ~genians THEN NoDate
    ELSE Swallowed(ParseDateString(SourceText(src, page[src])))

\* one stage of _extract_date_from_page; page.content() of stage 6 raising
\* goes to the outer except, which returns None
DrStage ==
    /\ dr_pc = "stages"
    /\ LET src == StageOrder[dr_stage]
           dt == StageResult(src, dr_page, dr_header, dr_genians)
       IN  IF dt # NoDate
           THEN /\ dr_ret' = dt
                /\ dr_pc' = "returned"
                /\ UNCHANGED dr_stage
           ELSE IF dr_stage = Len(StageOrder)
                   \/ (src = "raw" /\ dr_page[src] = "raises")
                THEN /\ dr_ret' = NoDate
                     /\ dr_pc' = "returned"
                     /\ UNCHANGED dr_stage
                ELSE /\ dr_stage' = dr_stage + 1
                     /\ UNCHANGED << dr_ret, dr_pc >>
    /\ UNCHANGED << dr_url, dr_genians, dr_page, dr_header, dr_recorded,
                    dr_opened, dateRest >>

\* `if dt: self.link_dates[url] = dt`
DrStore ==
    /\ dr_pc = "returned"
    /\ dr_recorded' = IF dr_ret # NoDate THEN dr_ret ELSE dr_recorded
    /\ dr_pc' = "done"
    /\ UNCHANGED << dr_url, dr_genians, dr_page, dr_stage, dr_header, dr_ret,
                    dr_opened, dateRest >>

NextDate == DrWork \/ DrOpenPage \/ DrGotoFail \/ DrStage \/ DrStore

\* ------------------------------------------------------------------------
\* Two crawlers merging into self.collected_links: the code between two
\* suspension points of a task runs without another task in between
\* ------------------------------------------------------------------------
MaxMergeRounds == 2

\* two site tasks that hold a site permit each
Mergers == {1, 2}
CrawlerKinds == {"load_more", "paginated"}
\* the pages of one batch of the paginated crawler, in page order
MergeBatch == 1..2

mgRest == << run, permits, pc, initial, new_links, date_task, link_dates,
             links_by_source, attempts, event_q, ui_pc, completed,
             pagVars, auxVars, fileVars, cmdVars, hostVars, dateVars, exVars >>

\* the set a difference is taken against: self.collected_links as it is when
\* the statement runs, not as it was when the task suspended
DiffBase_AtSuspension(seen, coll) == seen
DiffBase(seen, coll) == coll

\* one merge step: `new_links = links - self.collected_links`,
\* `if new_links: self.collected_links.update(new_links)`
MergeStep(links, seen, acc) ==
    LET base == DiffBase(seen, acc.coll)
        new == links \ base
    IN  [coll    |-> IF new # {} THEN SetUpdate(acc.coll, new) ELSE acc.coll,
         counted |-> [l \in Links |-> IF l \in new THEN acc.counted[l] + 1
                                      ELSE acc.counted[l]],
         torn    |-> (acc.torn \/ base # acc.coll)]

\* `for idx, page_links in enumerate(results)`: one merge step per page
\* with links, in page order
RECURSIVE MergeResults(_, _, _, _)
MergeResults(results, p, seen, acc) ==
    IF p > Len(results) THEN acc
    ELSE IF results[p] # {}
         THEN MergeResults(results, p + 1, seen, MergeStep(results[p], seen, acc))
         ELSE MergeResults(results, p + 1, seen, acc)

InitMerge ==
    /\ RunInCrawl
    /\ collected_links = {}
    /\ batch_size = max_concurrent_pages
    /\ initial_count = 0
    /\ InitPagVars
    /\ InitLmVars
    /\ InitDetVars
    /\ InitNavVars
    /\ InitTwVars
    /\ InitSortVars
    /\ InitFileVars
    /\ InitCmdVars
    /\ InitHostVars
    /\ InitDateVars
    /\ mg_pc = [t \in Mergers |-> "suspended"]
    /\ mg_kind \in [Mergers -> CrawlerKinds]
    /\ mg_seen = [t \in Mergers |-> {}]
    /\ mg_round = [t \in Mergers |-> 0]
    /\ mg_counted = [l \in Links |-> 0]
    /\ mg_torn = FALSE
    /\ InitExVars

\* the state after the merges of a task, which suspends again at its next
\* await (the next click, the next batch's gather)
Merged(t, m) ==
    /\ collected_links' = m.coll
    /\ mg_counted' = m.counted
    /\ mg_torn' = m.torn
    /\ mg_seen' = [mg_seen EXCEPT ![t] = m.coll]
    /\ mg_round' = [mg_round EXCEPT ![t] = @ + 1]
    /\ UNCHANGED << mg_pc, mg_kind, mgRest >>

\* `links = await self._extract_links(page)` returns in the load-more
\* crawler (initial page or after a click) and the links are merged
MgExtract(t) ==
    /\ mg_pc[t] = "suspended"
    /\ mg_kind[t] = "load_more"
    /\ mg_round[t] < MaxMergeRounds
    /\ \E links \in SUBSET Links :
          Merged(t, MergeStep(links, mg_seen[t],
                              [coll |-> collected_links,
                               counted |-> mg_counted, torn |-> mg_torn]))

\* `results = await asyncio.gather(*tasks)` returns in the paginated crawler
\* and the pages of the batch are merged in page order
MgBatch(t) ==
    /\ mg_pc[t] = "suspended"
    /\ mg_kind[t] = "paginated"
    /\ mg_round[t] < MaxMergeRounds
    /\ \E results \in [MergeBatch -> SUBSET Links] :
          Merged(t, MergeResults(results, 1, mg_seen[t],
                                 [coll |-> collected_links,
                                  counted |-> mg_counted, torn |-> mg_torn]))

\* the crawler returns
MgReturn(t) ==
    /\ mg_pc[t] = "suspended"
    /\ mg_pc' = [mg_pc EXCEPT ![t] = "returned"]
    /\ UNCHANGED << collected_links, mg_kind, mg_seen, mg_round, mg_counted,
                    mg_torn, mgRest >>

NextMerge ==
    \/ \E t \in Mergers : MgExtract(t)
    \/ \E t \in Mergers : MgBatch(t)
    \/ \E t \in Mergers : MgReturn(t)

\* ------------------------------------------------------------------------
\* The extractor: extract_run and one _worker per line of the URL file
\* ------------------------------------------------------------------------
NumUrlLines == 2              \* URL lines of the URL file
MaxRetries == 1               \* --retries values tried: 0..MaxRetries

Workers == 1..NumUrlLines
\* the URLs a line can hold; read_url_lines keeps repeated lines
ExUrls == {1, 2}
\* sha256_hex(url): distinct URLs have distinct digests
Sha256Hex(u) == 1000 + u
\* out_dir / f"temp_{sha256_hex(url)}.pdf"
TempPath(u) == [dir |-> "out_dir", name |-> << "temp_", Sha256Hex(u), ".pdf" >>]
TempPaths == { TempPath(u) : u \in ExUrls }
temp_pdf_path(w) == TempPath(ex_url[w])
NoWriter == 0

exRest == << runVars, pagVars, auxVars, fileVars, cmdVars, hostVars,
             dateVars, mgVars >>

\* `if attempt <= retries + 1:` sleep and go round again
RetryGuard(attempt, retries) == attempt <= retries + 1

InitExt ==
    /\ InitRun
    /\ batch_size = max_concurrent_pages
    /\ initial_count = 0
    /\ InitPagVars
    /\ InitLmVars
    /\ InitDetVars
    /\ InitNavVars
    /\ InitTwVars
    /\ InitSortVars
    /\ InitFileVars
    /\ InitCmdVars
    /\ InitHostVars
    /\ InitDateVars
    /\ InitMgVars
    /\ ex_pc = [w \in Workers |-> "top"]
    /\ ex_url \in [Workers -> ExUrls]
    /\ ex_retries \in 0..MaxRetries
    /\ ex_permits \in 1..NumUrlLines
    /\ ex_attempt = [w \in Workers |-> 0]
    /\ ex_renders = [w \in Workers |-> 0]
    /\ ex_good = [w \in Workers |-> 0]
    /\ ex_file = [p \in TempPaths |-> NoWriter]
    /\ ex_events = [w \in Workers |-> << >>]
    /\ ex_lost = FALSE

\* `attempt += 1` and `async with sem` is entered; render_url_to_pdf_async
\* is called and suspends
ExAcquire(w) ==
    /\ ex_pc[w] = "top"
    /\ SemCanAcquire(ex_permits)
    /\ ex_permits' = ex_permits - 1
    /\ ex_attempt' = [ex_attempt EXCEPT ![w] = @ + 1]
    /\ ex_renders' = [ex_renders EXCEPT ![w] = @ + 1]
    /\ ex_pc' = [ex_pc EXCEPT ![w] = "render"]
    /\ UNCHANGED << ex_url, ex_retries, ex_good, ex_file, ex_events,
                    ex_lost, exRest >>

\* the except clause: the temporary file is removed if there is one, then
\* the worker sleeps inside the semaphore or reports the failure and returns
ExExcept(w) ==
    /\ ex_file' = [ex_file EXCEPT ![temp_pdf_path(w)] = NoWriter]
    /\ ex_lost' = (ex_lost \/ ex_file[temp_pdf_path(w)] \notin {NoWriter, w})
    /\ IF RetryGuard(ex_attempt[w], ex_retries)
       THEN /\ ex_pc' = [ex_pc EXCEPT ![w] = "sleep"]
            /\ UNCHANGED << ex_events, ex_permits >>
       ELSE /\ ex_events' = [ex_events EXCEPT ![w] = Append(@, "fail")]
            /\ ex_pc' = [ex_pc EXCEPT ![w] = "done"]
            /\ ex_permits' = ex_permits + 1

\* page.pdf(path=temp_pdf_path) has written the file; get_page_title is
\* called and suspends
ExRenderOk(w) ==
    /\ ex_pc[w] = "render"
    /\ ex_file' = [ex_file EXCEPT ![temp_pdf_path(w)] = w]
    /\ ex_good' = [ex_good EXCEPT ![w] = @ + 1]
    /\ ex_pc' = [ex_pc EXCEPT ![w] = "title"]
    /\ UNCHANGED << ex_url, ex_retries, ex_permits, ex_attempt, ex_renders,
                    ex_events, ex_lost, exRest >>

\* render_url_to_pdf_async raises (new_page, goto, pdf or close)
ExRenderFail(w) ==
    /\ ex_pc[w] = "render"
    /\ ExExcept(w)
    /\ UNCHANGED << ex_url, ex_retries, ex_attempt, ex_renders, ex_good,
                    exRest >>

\* get_page_title returns (it raises nothing); the final name is chosen and
\* os.rename(temp_pdf_path, final_pdf_path) moves the file, or raises
\* FileNotFoundError when the temporary file is gone
ExRename(w) ==
    /\ ex_pc[w] = "title"
    /\ IF ex_file[temp_pdf_path(w)] = NoWriter
       THEN ExExcept(w)
       ELSE /\ ex_file' = [ex_file EXCEPT ![temp_pdf_path(w)] = NoWriter]
            /\ ex_lost' = (ex_lost \/ ex_file[temp_pdf_path(w)] # w)
            /\ ex_events' = [ex_events EXCEPT ![w] = Append(@, "ok")]
            /\ ex_pc' = [ex_pc EXCEPT ![w] = "done"]
            /\ ex_permits' = ex_permits + 1
    /\ UNCHANGED << ex_url, ex_retries, ex_attempt, ex_renders, ex_good,
                    exRest >>

\* asyncio.sleep returns, `async with sem` is left and the loop goes round
ExWake(w) ==
    /\ ex_pc[w] = "sleep"
    /\ ex_permits' = ex_permits + 1
    /\ ex_pc' = [ex_pc EXCEPT ![w] = "top"]
    /\ UNCHANGED << ex_url, ex_retries, ex_attempt, ex_renders, ex_good,
                    ex_file, ex_events, ex_lost, exRest >>

NextExt ==
    \/ \E w \in Workers : ExAcquire(w)
    \/ \E w \in Workers : ExRenderOk(w)
    \/ \E w \in Workers : ExRenderFail(w)
    \/ \E w \in Workers : ExRename(w)
    \/ \E w \in Workers : ExWake(w)

\* ------------------------------------------------------------------------
\* Specifications
\* ------------------------------------------------------------------------
vars == << runVars, pagVars, auxVars, fileVars, cmdVars, hostVars, dateVars, mgVars, exVars >>

\* in a run the paginated crawler's own state is not modelled
Init ==
    /\ InitRun
    /\ batch_size = max_concurrent_pages
    /\ initial_count = 0
    /\ InitPagVars
    /\ InitLmVars
    /\ InitDetVars
    /\ InitNavVars
    /\ InitTwVars
    /\ InitSortVars
    /\ InitFileVars
    /\ InitCmdVars
    /\ InitHostVars
    /\ InitDateVars
    /\ InitMgVars
    /\ InitExVars

Next == NextRun
Spec == Init /\ [][Next]_vars

SpecPag == InitPag /\ [][NextPag]_vars

SpecDet == InitDet /\ [][NextDet]_vars

SpecNav == InitNav /\ [][NextNav]_vars

SpecTw == InitTw /\ [][NextTw]_vars

SpecSort == InitSort /\ [][NextSort]_vars

SpecFile == InitFile /\ [][NextFile]_vars

SpecCmd == InitCmd /\ [][NextCmd]_vars

SpecHost == InitHost /\ [][NextHost]_vars

SpecMerge == InitMerge /\ [][NextMerge]_vars
SpecExt == InitExt /\ [][NextExt]_vars
SpecDate == InitDate /\ [][NextDate]_vars

\* every awaited browser call of the crawler returns or raises
SpecLm == InitLm /\ [][NextLm]_vars /\ WF_vars(NextLm)
\* a run in which the event loop always runs some task that is ready
SpecLive == Init /\ [][Next]_vars /\ WF_vars(Next)

TypeOK ==
    /\ run \in {"start", "gathering", "closing", "saved", "aborting", "aborted"}
    /\ permits \in 0..MaxConcurrentSites
    /\ collected_links \subseteq Links

TypeOKPag ==
    /\ pag_pc \in {"page1", "batch", "returned", "raised"}
    /\ batch_size \in PageLimits
    /\ page_num \in 1..(max_pages + batch_size)
    /\ collected_links = 1..Cardinality(collected_links)

\* ------------------------------------------------------------------------
\* Claims about a run (Spec)
\* ------------------------------------------------------------------------
InsideSeeds == { s \in Seeds : Inside(s) }
LookupsInFlight == { sl \in Seeds \X Links : date_task[sl[1]][sl[2]] = "inflight" }

\* C1: at every point of a run no link is in the attribution lists
\* (links_by_source) of two different seeds.
C1_AttributionExclusive ==
    \A i, j \in 1..Len(links_by_source) :
        i # j => links_by_source[i].links \cap links_by_source[j].links = {}

\* C2: at any moment the number of date-resolution lookups in flight,
\* summed over all seeds, is at most max_concurrent_date_fetches.
C2_DateLookupsBounded ==
    Cardinality(LookupsInFlight) <= MaxConcurrentDateFetches

\* C3: at any moment at most max_concurrent_sites seed tasks are inside
\* _process_single_site; a task is inside only while it holds a site
\* permit, and the permit is back in the semaphore on every exit path of
\* the task (return, exception, cancellation).
C3_SitePermits ==
    /\ Cardinality(InsideSeeds) <= MaxConcurrentSites
    /\ permits = MaxConcurrentSites - Cardinality(InsideSeeds)

\* a seed task has raised and all site permits are taken again
C3_Witness ==
    /\ \E s \in Seeds : pc[s] = "raised"
    /\ Cardinality(InsideSeeds) = MaxConcurrentSites
    /\ permits = 0

\* C4: within one run date resolution is attempted at most once for any
\* link, across all seeds whose new-link lists contain it.
C4_ResolvedAtMostOnce ==
    \A l \in Links : attempts[l] <= 1

\* C5: no failure of a browser operation inside a per-site, per-page or
\* per-date task keeps collect_links from processing the other seeds and
\* from reaching the output-writing step.
C5_RunReachesOutput ==
    run \notin {"aborting", "aborted"}

\* C6: the collector publishes exactly one completion event per seed, so
\* that the progress loop can consume total_sites events and end: when
\* collect_links has written its output, one event per seed was published.
C6_CompletionPerSeed ==
    run = "saved" => Len(event_q) + completed = NumSeeds

\* ------------------------------------------------------------------------
\* Claims about the paginated crawler (SpecPag)
\* ------------------------------------------------------------------------
Fetched(p) == \E i \in 1..Len(fetched) : fetched[i] = p
AllFetched(lo, hi) == \A p \in lo..hi : Fetched(p)
\* every fetch awaited so far has returned its result
AllReturned == pag_pc \in {"batch", "returned"}
Batches == Len(batch_log)

\* C7 (as stated): with the default page-concurrency limit of 5, if pages
\* 1-5 returned links and pages 6-10 each return zero new links, the crawl
\* never fetches page 11.
C7_StopAfterPages6To10 ==
    ( /\ batch_size = max_concurrent_pages
      /\ AllReturned
      /\ AllFetched(1, 10)
      /\ links_1_5
      /\ nonew_6_10 )
    => ~Fetched(11)

\* C7 (amended): with the default limit of 5 the batches are pages 2-6,
\* 7-11, ...; if pages 7-11 each return zero new links, the crawl halts
\* after the batch of pages 7-11 and never fetches page 12.
C7_StopAfterPages7To11 ==
    ( /\ batch_size = max_concurrent_pages
      /\ AllReturned
      /\ AllFetched(7, 11)
      /\ nonew_7_11 )
    => (pag_pc = "returned" /\ ~Fetched(12))

\* pages 1-5 returned links, pages 6-11 were fetched, pages 7-11 had
\* nothing new and the crawl is over
C7_Witness ==
    /\ batch_size = max_concurrent_pages
    /\ pag_pc = "returned"
    /\ links_1_5
    /\ nonew_7_11
    /\ Len(fetched) = 11

\* C8: after page 1 yielded links, batch k+1 is fetched if and only if
\* batch k contributed at least one new link when it was merged and the
\* page cap is not reached; a batch without a new link is the last one.
C8_NextBatchIffNew ==
    /\ \A k \in 1..(Batches - 1) : batch_log[k]
    /\ pag_pc = "batch" =>
          /\ first_page
          /\ page_num <= max_pages
          /\ Batches > 0 => batch_log[Batches]
    /\ (pag_pc = "returned" /\ first_page) =>
          /\ Batches > 0
          /\ ~batch_log[Batches] \/ page_num > max_pages

\* a crawl of several batches that ended on a batch without a new link
C8_Witness ==
    /\ pag_pc = "returned"
    /\ Batches >= 3
    /\ ~batch_log[Batches]
    /\ page_num <= max_pages

\* C9: for every page-concurrency limit the crawler never fetches a page
\* number above 100, fetches each page number at most once, and the pages
\* fetched are a prefix 1..n of the page sequence (at most 100 fetches).
C9_PagesArePrefix ==
    /\ Len(fetched) <= max_pages
    /\ \A i \in 1..Len(fetched) : fetched[i] = i

\* the crawl ran into the page cap
C9_Witness ==
    /\ pag_pc = "returned"
    /\ Len(fetched) = max_pages
    /\ batch_log[Batches]

\* C10: if page 1 yields zero links, the crawler fetches no further page,
\* leaves the global link set unchanged and returns 0.
C10_EmptyFirstPage ==
    (pag_pc = "returned" /\ ~first_page) =>
        /\ fetched = << 1 >>
        /\ batch_log = << >>
        /\ collected_links = 1..initial_count
        /\ pag_ret = 0

\* page 1 of a seed was empty while the global set already held links
C10_Witness ==
    /\ pag_pc = "returned"
    /\ ~first_page
    /\ initial_count > 0
    /\ collected_links # {}

\* ------------------------------------------------------------------------
\* Claims about the load-more crawler (SpecLm)
\* ------------------------------------------------------------------------
TypeOKLm ==
    /\ lm_pc \in {"open", "initial", "loop", "scan", "extract", "close",
                  "done", "raised"}
    /\ click_count \in 0..max_clicks
    /\ pattern_i \in 1..NumButtonPatterns
    /\ uncounted \in 0..MaxUncounted

\* C11: three counted clicks in a row without a link new to the global
\* set end the click loop whatever click_count is; a click with a new link
\* resets the counter, so consecutive_no_new is the length of the current
\* run of clicks without a new link and stays within 0..3.
C11_NoNewStreakStops ==
    /\ consecutive_no_new \in 0..limit_click_count
    /\ consecutive_no_new = streak
    /\ streak = limit_click_count => lm_pc \notin {"scan", "extract"}

\* the loop was left for the streak, below the click cap, after a click
\* with a new link had reset the counter
C11_Witness ==
    /\ lm_pc = "done"
    /\ lm_exit = "streak"
    /\ click_count < max_clicks
    /\ click_count > limit_click_count
    /\ streak = limit_click_count

\* C12: the load-more crawler performs at most 20 button clicks on a
\* seed's page, clicks whose wait for network-idle fails included.
C12_AtMostMaxClicks ==
    click_count + uncounted <= max_clicks

\* the reason recorded for leaving the click loop agrees with the state
LmExitOK ==
    /\ lm_exit \in {"none", "cap", "streak", "no_button", "error"}
    /\ lm_exit = "cap" => click_count = max_clicks
    /\ lm_exit = "streak" => consecutive_no_new = limit_click_count
    /\ lm_exit = "no_button" =>
          /\ ~button_clicked
          /\ ClickLoopGuard(click_count, consecutive_no_new)
    /\ lm_exit \in {"cap", "streak", "no_button"} =>
          extractions = click_count + 1
    /\ lm_exit = "error" => extractions = 0
    /\ lm_pc \in {"close", "done"} => lm_exit # "none"

\* C13: the load-more crawler reaches its terminal state after finitely
\* many loop iterations, and leaves the click loop only for the click cap,
\* the no-new streak, an iteration in which no button was clicked (then
\* without a further extraction) or an error.
C13_LoadMoreTerminates ==
    /\ []LmExitOK
    /\ <>(lm_pc \in {"done", "raised"})

\* the crawler ended because an iteration clicked no button, after clicks
C13_Witness ==
    /\ lm_pc = "done"
    /\ lm_exit = "no_button"
    /\ click_count > 0

\* ------------------------------------------------------------------------
\* Claims about site type detection (SpecDet)
\* ------------------------------------------------------------------------
\* C14: _detect_site_type never raises and returns exactly one of
\* load_more and pagination: load_more when a visible element of a pattern
\* has keyword text, pagination otherwise, also on a failure while opening
\* or navigating the listing page.
C14_DetectNeverRaises ==
    /\ det_pc # "raised"
    /\ det_pc = "returned" => det_ret \in {"load_more", "pagination"}
    /\ det_ret = "load_more" =>
          /\ det_i \in 1..Len(det_elements)
          /\ det_elements[det_i] = "keyword"

\* ------------------------------------------------------------------------
\* Further claims about a run (Spec)
\* ------------------------------------------------------------------------
\* C15: a seed whose crawl errors after it has merged links keeps them in
\* the global set and gets them attributed, and the run goes on with the
\* remaining seeds: a seed task that has merged links leaves its crawler
\* only towards the attribution of its links, and the run is not ended by
\* that step.
C15_ErrorKeepsLinks ==
    [][\A s \in Seeds :
          (pc[s] = "merged" /\ pc'[s] # "merged") =>
              /\ pc'[s] \in {"enriching", "done"}
              /\ run' = run]_vars

\* C18: in every reachable state every link of every attribution list is
\* a member of the global link set.
C18_AttributedInGlobal ==
    \A i \in 1..Len(links_by_source) :
        links_by_source[i].links \subseteq collected_links

\* a seed has links attributed while another task is still crawling
C18_Witness ==
    /\ \E i \in 1..Len(links_by_source) : links_by_source[i].links # {}
    /\ \E s \in Seeds : pc[s] \in {"crawling", "merged"}

\* C19: no step of any task removes a link from the global link set.
C19_GlobalSetGrows ==
    [][collected_links \subseteq collected_links']_vars

\* a crawler has merged links into a global set that already held some
C19_Witness ==
    \E s \in Seeds :
        /\ pc[s] = "merged"
        /\ initial[s] # {}
        /\ initial[s] # collected_links

\* ------------------------------------------------------------------------
\* Claims about navigation (SpecNav)
\* ------------------------------------------------------------------------
\* C16: at every call site a navigation that times out or whose response
\* status is not 2xx/3xx contributes no link and no date: whatever is read
\* was read after a page.goto that returned a 2xx/3xx response.
C16_FailedNavigationContributesNothing ==
    nav_contrib # "none" =>
        /\ nav_log # << >>
        /\ nav_log[Len(nav_log)] \in { st \in Statuses : st < 400 }

C20_SectionOrder ==
    sort_pc = "written" =>
        \A i, j \in 1..Len(section) :
            i < j =>
                /\ (link_dates[section[i]] # NoDate /\ link_dates[section[j]] # NoDate)
                      => link_dates[section[i]] >= link_dates[section[j]]
                /\ ~(link_dates[section[i]] = NoDate /\ link_dates[section[j]] # NoDate)

\* ------------------------------------------------------------------------
\* Claims about the manifest of a run (Spec)
\* ------------------------------------------------------------------------
\* the positions of the section lines of seed URL u in the output file
SectionsFor(u) ==
    { i \in 1..Len(output_file.content) : output_file.content[i] = SectionLine(u) }
\* the seed URLs of the sections of the output file, in file order
SectionHeads ==
    SelectSeq(output_file.content, LAMBDA ln : ln.t = SectionLine(0).t)

\* C21: after a run the manifest has the header and then exactly one
\* section for every seed of the seed list, carrying the seed URL, the
\* number of links attributed to the seed and these links sorted by date.
C21_OneSectionPerSeed ==
    run = "saved" =>
        /\ SubSeq(output_file.content, 1, 4) = HeaderLines(collected_links, run_no)
        /\ \A u \in SeedUrls :
              /\ Cardinality(SectionsFor(u)) = 1
              /\ \A i \in SectionsFor(u) :
                    LET links == DictGet(links_by_source, u)
                        n == Cardinality(links)
                        body == SubSeq(output_file.content, i + 4, i + 3 + n)
                    IN  /\ output_file.content[i + 1] = CollectedLine(n)
                        /\ Len(body) = n
                        /\ { body[k].v : k \in 1..n } = links
                        /\ \A k \in 1..n : body[k].t = LinkLine(0).t
                        /\ \A k \in 1..(n - 1) :
                              SortKey(link_dates, body[k].v)
                                  >= SortKey(link_dates, body[k + 1].v)

\* C22: the sections of the manifest are in the reverse of the order in
\* which the seeds stand in the seed list, whatever the order in which the
\* concurrent site tasks started and finished.
C22_ReverseSeedOrder ==
    run = "saved" =>
        \A i, j \in 1..Len(SectionHeads) :
            i < j => SectionHeads[i].v > SectionHeads[j].v

\* ------------------------------------------------------------------------
\* Claims about consecutive runs on one output file (SpecFile)
\* ------------------------------------------------------------------------
\* content holds the lines of part as one block starting at line i
BlockAt(content, part, i) ==
    /\ i >= 1
    /\ i + Len(part) - 1 <= Len(content)
    /\ SubSeq(content, i, i + Len(part) - 1) = part
\* the lines of the output file that list link l
ListingsOf(l) ==
    { i \in 1..Len(output_file.content) : output_file.content[i] = LinkLine(l) }

\* C23: manual or legacy content that was in the output file before the
\* first run is in the file verbatim after every run, under the
\* previous-collections marker once a run has rewritten the file.
C23_LegacyKept ==
    (Stripped(legacy) /\ ~StartsWithTitle(legacy)) =>
        \/ output_file.content = legacy
        \/ \E i \in 1..Len(output_file.content) :
              /\ output_file.content[i] = PreviousLine
              /\ BlockAt(output_file.content, legacy, i + 2)

\* C24: a link that a run listed in the manifest is listed in the manifest
\* after every later run, and exactly once.
C24_HistoryKeptOnce ==
    \A l \in listed : Cardinality(ListingsOf(l)) = 1

\* ------------------------------------------------------------------------
\* Claims about the command layer (SpecCmd)
\* ------------------------------------------------------------------------
\* C25: with the seed file missing the run is a no-op: no exception leaves
\* it, no browser is started, the global set, the date map and the
\* attribution map stay empty and the output file is not created.
C25_MissingSeedFileNoOp ==
    seed_file = "missing" =>
        /\ cmd_pc \in {"decide", "open", "read", "noop"}
        /\ cmd_exc = "none"
        /\ ~browser
        /\ collected_links = {}
        /\ \A l \in Links : link_dates[l] = NoDate
        /\ links_by_source = << >>
        /\ output_file = NoFile

\* the value denotes a positive integer: decimal digits, at least 1
ValidPositive(env) == env.set /\ IsDigit(env.s) /\ IntOf(env.s) >= 1
\* the cap the claim states for a preset value and a variable
Decided(env, preset) == IF ValidPositive(env) THEN IntOf(env.s) ELSE preset

\* C26: _decide_concurrency returns the integer of an environment variable
\* if and only if its value denotes a positive integer (>= 1), and the
\* preset of the mode for every other value (unset, empty, non-numeric,
\* negative, zero).
C26_OverrideIffPositive ==
    (entry = "collect_run" /\ cmd_pc # "decide") =>
        /\ max_sites = Decided(env_sites, Preset(mode, cpu)[1])
        /\ max_pages_c = Decided(env_pages, Preset(mode, cpu)[2])

\* ------------------------------------------------------------------------
\* Claims about the host checks (SpecHost)
\* ------------------------------------------------------------------------
\* C27: on a page of seed www.fortinet.com the links on www.fortinet.com
\* and on fortinet.com pass the filter's host check and are attributed to
\* the seed, and a link on fortinet.com.evil.example is rejected.
C27_FortinetAliases ==
    (page_host = H_www_fortinet /\ host_pc = "attributed") =>
        \A h \in served :
            /\ h \in {H_www_fortinet, H_fortinet} =>
                  (h \in accepted /\ h \in attributed)
            /\ h = H_evil => (h \notin accepted /\ h \notin attributed)

C27_Witness ==
    /\ host_pc = "attributed"
    /\ page_host = H_www_fortinet
    /\ served = {H_www_fortinet, H_fortinet, H_evil}
    /\ attributed = {H_www_fortinet, H_fortinet}

\* C28: the filter's final host check accepts a link host on a page host
\* exactly when _is_link_from_domain accepts it, so every link the filter
\* lets through passes the domain matcher against its page.
C28_FilterIsMatcher ==
    host_pc \in {"extracted", "attributed"} =>
        \A h \in served : h \in accepted <=> IsLinkFromDomain(h, page_host)

\* ------------------------------------------------------------------------
\* Claims about the date resolution of a link (SpecDate)
\* ------------------------------------------------------------------------
\* the URL path holds /YYYY/MM/DD/, /YYYY-MM-DD/ or /YYYY.MM.DD/ with a
\* date of the calendar
EncodesValidDate(u) == u.sep \in UrlSeps /\ ValidDate(u.y, u.m, u.d)

\* C29: for a link whose URL path encodes a valid calendar date (and that
\* has no date yet) date resolution records that date and opens no browser
\* page.
C29_UrlDateNoBrowser ==
    (EncodesValidDate(dr_url) /\ dr_recorded # ListingDate) =>
        /\ dr_opened = 0
        /\ dr_pc = "done" => dr_recorded = DateNum(dr_url.y, dr_url.m, dr_url.d)

\* the stages in the order of the specification, (a) to (f)
InspectionOrder == << "jsonld", "meta", "time", "near", "header", "raw" >>
\* the stage of source src finds a parseable date on the page
Yields(src) ==
    /\ dr_page[src] = "date"
    /\ src = "near" => dr_genians
\* the date of the earliest stage that yields one, NoDate without one
FirstHit ==
    LET hits == { i \in 1..Len(InspectionOrder) : Yields(InspectionOrder[i]) }
    IN  IF hits = {} THEN NoDate
        ELSE SourceDate(InspectionOrder[CHOOSE i \in hits : \A j \in hits : i <= j])
\* _extract_date_from_page has inspected the page and returned
Inspected == dr_pc \in {"returned", "done"} /\ dr_page # << >>

\* C30 as stated: the value returned is the date of the earliest stage, in
\* the order (a) to (f), that yields a date, and the Last-Modified date is
\* returned only if no other stage yields one.
C30_HeaderOnlyIfNothingElse ==
    Inspected =>
        /\ dr_ret = FirstHit
        /\ dr_ret = SourceDate("header") =>
              \A src \in Sources \ {"header"} : ~Yields(src)

\* C30: the value returned is the date of the earliest stage, in the order
\* (a) to (f), that yields a date; the Last-Modified date is returned only
\* if none of the stages (a) to (d) yields one.
C30_FirstStageWins ==
    Inspected =>
        /\ dr_ret = FirstHit
        /\ dr_ret = SourceDate("header") =>
              \A src \in {"jsonld", "meta", "time", "near"} : ~Yields(src)

C30_Witness ==
    /\ dr_pc = "done"
    /\ dr_ret = SourceDate("header")
    /\ dr_recorded = SourceDate("header")
    /\ dr_page["raw"] = "date"
    /\ dr_page["jsonld"] = "raises"

\* the URL path holds year, month and day tokens of an impossible date
InvalidUrlTriple(u) ==
    u.sep # "none" /\ MatchesTokens(u) /\ ~ValidDate(u.y, u.m, u.d)
\* the stages before stage k of _extract_date_from_page
Before(k) == { StageOrder[i] : i \in 1..(k - 1) }

Attempting(w) == ex_pc # << >> /\ ex_pc[w] \in {"render", "title"}

\* C33: a worker whose every render failed makes at most retries + 1 calls
\* of render_url_to_pdf_async and then puts exactly one fail event.
C33_AtMostRetriesPlusOne ==
    \A w \in Workers :
        (ex_pc # << >> /\ ex_pc[w] = "done" /\ ex_good[w] = 0)
            => /\ ex_renders[w] <= ex_retries + 1
               /\ ex_events[w] = << "fail" >>

\* what the code does for such a worker: retries + 2 renders, one fail event
C33_RetriesPlusTwo ==
    \A w \in Workers :
        (ex_pc # << >> /\ ex_pc[w] = "done" /\ ex_good[w] = 0)
            => /\ ex_renders[w] = ex_retries + 2
               /\ ex_events[w] = << "fail" >>

\* C38: no two workers are in an attempt on the same temporary PDF path at
\* the same time, whatever the URL list, and no worker removes or renames a
\* file that another worker rendered.
C38_NoSharedTempPath ==
    /\ \A w, v \in Workers :
          (w # v /\ Attempting(w) /\ Attempting(v))
              => temp_pdf_path(w) # temp_pdf_path(v)
    /\ ~ex_lost

\* the sum of the per-section "Collected" counts of the output file
RECURSIVE CollectedSum(_)
CollectedSum(content) ==
    IF content = << >> THEN 0
    ELSE (IF Head(content).t = CollectedLine(0).t THEN Head(content).v ELSE 0)
            + CollectedSum(Tail(content))
\* C34: after a run every link of the global link set is listed in exactly
\* one seed section of the manifest, and the header's Total Links is the sum
\* of the sections' Collected counts.
C34_EveryLinkInOneSection ==
    run = "saved" =>
        /\ \A l \in collected_links : Cardinality(ListingsOf(l)) = 1
        /\ output_file.content[3] = TotalLine(Cardinality(collected_links))
        /\ output_file.content[3].v = CollectedSum(output_file.content)

\* C35: the domain matcher is reflexive: on the pages of a seed a link
\* whose host is the seed's own host passes _is_link_from_domain, so a link
\* on the seed's host that the filter let through is attributed to the seed.
C35_MatcherReflexive ==
    host_pc = "attributed" =>
        /\ IsLinkFromDomain(page_host, page_host)
        /\ page_host \in accepted => page_host \in attributed

\* ------------------------------------------------------------------------
\* Claims about pages and the browser context (Spec)
\* ------------------------------------------------------------------------
\* collect_links has entered its finally block: browser_context.close() has
\* been called
ContextCloseCalled == run \in {"aborting", "aborted", "closing", "saved"}
\* seed tasks that hold a page: the detection page, the crawler's page
PageHolders == { s \in Seeds : pc[s] \in {"detecting", "crawling", "merged"} }
\* date lookups that hold an article page
DatePages == { << s, l >> \in Seeds \X Links : date_task[s][l] = "inflight" }

\* C36: the browser context is closed only after every seed task has
\* finished, so when browser_context.close() is called no seed task is
\* still unfinished and no page is open.
C36_ContextClosedLast ==
    (ContextCloseCalled /\ run # "aborted") =>
        /\ \A s \in Seeds : Finished(s)
        /\ PageHolders = {}
        /\ DatePages = {}

\* ------------------------------------------------------------------------
\* Claims about the termination of a run (SpecLive)
\* ------------------------------------------------------------------------
\* every run comes to an end: collect_links returns or raises
RunEnds == <>(run \in {"saved", "aborted"})

\* C37: with every browser operation returning or raising, every seed task
\* eventually gets a site permit, every date lookup that was handed to
\* gather is made, and the run ends with every seed task finished, every
\* site permit released and the manifest written.
C37_TerminatesWithManifest ==
    /\ \A s \in Seeds : <>(pc[s] \notin {"queued", "cancelled"})
    /\ <>[](/\ run = "saved"
            /\ \A s \in Seeds : pc[s] = "done"
            /\ permits = MaxConcurrentSites
            /\ output_file.exists)
====
